---- MODULE Spec2Model ----
(***************************************************************************)
(* A model of the gating engine of CytoPy (cytopy/flow/gating/actions.py,  *)
(* class Gating): the population tree, the gate registry and the           *)
(* operations that change them.                                            *)
(*                                                                         *)
(* Conventions.  Python's None is the string "None".  A numpy index array  *)
(* is the set of its event ids; a Python list that is returned or printed  *)
(* is the set of its elements.  A proportion n / d is the pair <<n, d>>.   *)
(* A geom dictionary is a record whose DOMAIN is the dictionary's keys.    *)
(***************************************************************************)
EXTENDS Integers, Sequences, FiniteSets, TLC

VARIABLES populations, gates, ret, calls, fmo_search_cache, filegroup, clusters, h5

vars == <<populations, gates, ret, calls, fmo_search_cache, filegroup, clusters, h5>>

None == "None"

-----------------------------------------------------------------------------
(* The primary data of the sample: self.data, one row per event.           *)

NEvents == 3

Events == 1..NEvents

\* the two columns of self.data used by the geoms of the model
\* (values are in thousandths, so that 2 decimals are tens)
Column(e, col) ==
    IF col = "FSC-A"
    THEN 1000 * e + (IF e % 3 = 1 THEN 4 ELSE IF e % 3 = 0 THEN 0 - 4 ELSE 0)
    ELSE 1000 * ((e * e) % 3)

Columns == {"FSC-A", "SSC-A"}

\* scipy.spatial.ConvexHull(d) raises unless the rows span the plane
Cross(p, q, r, x, y) ==
    (Column(q, x) - Column(p, x)) * (Column(r, y) - Column(p, y))
  - (Column(q, y) - Column(p, y)) * (Column(r, x) - Column(p, x))

HullExists(index, x, y) ==
    /\ x \in Columns
    /\ y \in Columns
    /\ \E p \in index, q \in index, r \in index : Cross(p, q, r, x, y) # 0

\* the rows of d that are corners of its convex hull: a row is no corner when
\* it lies on the closed segment between two other rows, or in the closed
\* triangle of three other rows
Between(p, q, r, x, y) ==
    /\ Cross(q, r, p, x, y) = 0
    /\ (Column(p, x) - Column(q, x)) * (Column(p, x) - Column(r, x)) <= 0
    /\ (Column(p, y) - Column(q, y)) * (Column(p, y) - Column(r, y)) <= 0

InTriangle(p, q, r, s, x, y) ==
    LET d1 == Cross(q, r, p, x, y)
        d2 == Cross(r, s, p, x, y)
        d3 == Cross(s, q, p, x, y)
    IN  /\ Cross(q, r, s, x, y) # 0
        /\ ~ ((d1 < 0 \/ d2 < 0 \/ d3 < 0) /\ (d1 > 0 \/ d2 > 0 \/ d3 > 0))

HullVertices(index, x, y) ==
    {p \in index :
        LET rest == index \ {p}
        IN  /\ \A q \in rest, r \in rest : q # r => ~ Between(p, q, r, x, y)
            /\ \A q \in rest, r \in rest, s \in rest : ~ InTriangle(p, q, r, s, x, y)}

\* external collaborators of __update_index (flow/transforms, gating/utilities)
ApplyTransform(method, v) == IF method = "logicle" THEN 2 * v ELSE v

InsideEllipse(e, x, y, geom) ==
    LET dx == Column(e, x) - geom.centroid[1]
        dy == Column(e, y) - geom.centroid[2]
        w  == geom.width
        h  == geom.height
    IN  4 * (dx * dx * h * h + dy * dy * w * w) <= w * w * h * h

InsidePolygon(e, x, y, cords) ==
    \/ e \in cords
    \/ \E q \in cords, r \in cords : q # r /\ Between(e, q, r, x, y)
    \/ \E q \in cords, r \in cords, s \in cords : InTriangle(e, q, r, s, x, y)

-----------------------------------------------------------------------------
(* Proportions.                                                            *)

Prop(n, d) == IF n = 0 THEN <<0, 1>> ELSE <<n, d>>


-----------------------------------------------------------------------------
(* The population tree: self.populations, name -> anytree Node.  A Node's  *)
(* parent reference is the parent's name; its children are the nodes that  *)
(* name it.                                                                *)

Node(parent, index, geom, prop_of_parent, prop_of_total, warnings) ==
    [parent |-> parent, index |-> index, geom |-> geom,
     prop_of_parent |-> prop_of_parent, prop_of_total |-> prop_of_total,
     warnings |-> warnings]

RootGeom == [shape |-> None, x |-> "FSC-A", y |-> "SSC-A"]

RootNode == Node(None, Events, RootGeom, <<1, 1>>, <<1, 1>>, <<>>)

\* node.path: the node and its ancestors
RECURSIVE Path(_, _)
Path(pops, n) ==
    IF n \notin DOMAIN pops \/ pops[n].parent = None
    THEN {n}
    ELSE {n} \cup Path(pops, pops[n].parent)

\* node.children
Children(pops, n) == {c \in DOMAIN pops : pops[c].parent = n}

\* mutant: the population itself is not among its dependencies
DependenciesBelow(pops, population) ==
    {n \in DOMAIN pops \ {population} :
        population \in Path(pops, n) /\ "root" \in Path(pops, n)}

\* find_dependencies on a population of the tree (root present)
Dependencies(pops, population) ==
    {n \in DOMAIN pops : population \in Path(pops, n) /\ "root" \in Path(pops, n)}

Restrict(f, S) == [k \in S |-> f[k]]

Put(f, k, v) == [j \in DOMAIN f \cup {k} |-> IF j = k THEN v ELSE f[j]]

\* get_population_df(name): the rows of self.data the population holds
PopulationRows(pops, name) == pops[name].index \cap Events

-----------------------------------------------------------------------------
(* Region evaluation: Gating.__update_index.                               *)

Get(geom, k) == IF k \in DOMAIN geom THEN geom[k] ELSE None

\* round(v, 2) of a value in thousandths, halves to even
Round2(v) ==
    LET q == v \div 10
        r == v % 10
    IN  IF r < 5 THEN 10 * q
        ELSE IF r > 5 THEN 10 * (q + 1)
        ELSE IF q % 2 = 0 THEN 10 * q ELSE 10 * (q + 1)

\* a cell of the parent frame after the transforms of the geom were applied
Cell(e, col, geom) ==
    IF col = Get(geom, "x") /\ Get(geom, "transform_x") # None
    THEN ApplyTransform(geom.transform_x, Column(e, col))
    ELSE IF col = Get(geom, "y") /\ Get(geom, "transform_y") # None
    THEN ApplyTransform(geom.transform_y, Column(e, col))
    ELSE Column(e, col)

Raised == [raised |-> TRUE, index |-> {}]

Index(S) == [raised |-> FALSE, index |-> S]

ThresholdIndex(parent, geom) ==
    IF ~ ({"threshold", "transform_x", "definition"} \subseteq DOMAIN geom) THEN Raised
    ELSE IF geom.x \notin Columns THEN Raised
    ELSE IF geom.definition = "+"
    THEN Index({e \in parent : Cell(e, geom.x, geom) >= geom.threshold})
    ELSE IF geom.definition = "-"
    THEN Index({e \in parent : Cell(e, geom.x, geom) < geom.threshold})
    ELSE Raised

\* mutant: the events on a threshold are counted in
geom_boolInclusive(definition, parent, geom) ==
    LET tx == Round2(geom.threshold_x)
        ty == Round2(geom.threshold_y)
        px(e) == Round2(Cell(e, geom.x, geom))
        py(e) == Round2(Cell(e, geom.y, geom))
    IN  IF definition = "++" THEN Index({e \in parent : px(e) >= tx /\ py(e) >= ty})
        ELSE IF definition = "--" THEN Index({e \in parent : px(e) <= tx /\ py(e) <= ty})
        ELSE IF definition = "+-" THEN Index({e \in parent : px(e) >= tx /\ py(e) <= ty})
        ELSE IF definition = "-+" THEN Index({e \in parent : px(e) <= tx /\ py(e) >= ty})
        ELSE Raised

geom_bool(definition, parent, geom) ==
    LET tx == Round2(geom.threshold_x)
        ty == Round2(geom.threshold_y)
        px(e) == Round2(Cell(e, geom.x, geom))
        py(e) == Round2(Cell(e, geom.y, geom))
    IN  IF definition = "++" THEN Index({e \in parent : px(e) > tx /\ py(e) > ty})
        ELSE IF definition = "--" THEN Index({e \in parent : px(e) < tx /\ py(e) < ty})
        ELSE IF definition = "+-" THEN Index({e \in parent : px(e) > tx /\ py(e) < ty})
        ELSE IF definition = "-+" THEN Index({e \in parent : px(e) < tx /\ py(e) > ty})
        ELSE Raised

Threshold2DIndex(parent, geom) ==
    IF ~ ({"definition", "threshold_x", "threshold_y", "transform_x", "transform_y"}
              \subseteq DOMAIN geom) THEN Raised
    ELSE IF Get(geom, "y") = None THEN Raised
    ELSE IF geom.x \notin Columns \/ geom.y \notin Columns THEN Raised
    ELSE geom_bool(geom.definition, parent, geom)

\* mutant: the bounds of the rectangle are left out
RectIndexWithin(parent, geom) ==
    IF ~ ({"definition", "x_min", "x_max", "y_min", "y_max", "transform_x", "transform_y"}
              \subseteq DOMAIN geom) THEN Raised
    ELSE IF Get(geom, "y") = None THEN Raised
    ELSE IF geom.x \notin Columns \/ geom.y \notin Columns THEN Raised
    ELSE LET pos == {e \in parent :
                        /\ Cell(e, geom.x, geom) > geom.x_min
                        /\ Cell(e, geom.x, geom) < geom.x_max
                        /\ Cell(e, geom.y, geom) > geom.y_min
                        /\ Cell(e, geom.y, geom) < geom.y_max}
         IN  IF geom.definition = "+" THEN Index(pos)
             ELSE IF geom.definition = "-" THEN Index({e \in parent : e \notin pos})
             ELSE Raised

RectIndex(parent, geom) ==
    IF ~ ({"definition", "x_min", "x_max", "y_min", "y_max", "transform_x", "transform_y"}
              \subseteq DOMAIN geom) THEN Raised
    ELSE IF Get(geom, "y") = None THEN Raised
    ELSE IF geom.x \notin Columns \/ geom.y \notin Columns THEN Raised
    ELSE LET pos == {e \in parent :
                        /\ Cell(e, geom.x, geom) >= geom.x_min
                        /\ Cell(e, geom.x, geom) <= geom.x_max
                        /\ Cell(e, geom.y, geom) >= geom.y_min
                        /\ Cell(e, geom.y, geom) <= geom.y_max}
         IN  IF geom.definition = "+" THEN Index(pos)
             ELSE IF geom.definition = "-" THEN Index({e \in parent : e \notin pos})
             ELSE Raised

EllipseIndex(parent, geom) ==
    IF ~ ({"definition", "centroid", "width", "height", "angle", "transform_x", "transform_y"}
              \subseteq DOMAIN geom) THEN Raised
    ELSE IF Get(geom, "y") = None THEN Raised
    ELSE IF geom.x \notin Columns \/ geom.y \notin Columns THEN Raised
    ELSE LET pos == {e \in parent : InsideEllipse(e, geom.x, geom.y, geom)}
         IN  IF geom.definition = "+" THEN Index(pos)
             ELSE IF geom.definition = "-" THEN Index({e \in parent : e \notin pos})
             ELSE Raised

PolyIndex(parent, geom) ==
    IF ~ ({"cords", "transform_x", "transform_y", "x", "y"} \subseteq DOMAIN geom) THEN Raised
    ELSE IF geom.x \notin Columns \/ geom.y \notin Columns THEN Raised
    ELSE Index({e \in parent : InsidePolygon(e, geom.x, geom.y, geom.cords)})

\* __update_index from the parent frame on: the shape's rule
ShapeIndex(parent, geom) ==
    IF Get(geom, "x") = None THEN Raised
    ELSE IF "shape" \notin DOMAIN geom THEN Raised
    ELSE IF geom.shape = "threshold" THEN ThresholdIndex(parent, geom)
    ELSE IF geom.shape = "2d_threshold" THEN Threshold2DIndex(parent, geom)
    ELSE IF geom.shape = "rect" THEN RectIndex(parent, geom)
    ELSE IF geom.shape = "ellipse" THEN EllipseIndex(parent, geom)
    ELSE IF geom.shape = "poly" THEN PolyIndex(parent, geom)
    ELSE Raised

\* __update_index(population_name, geom): the new index, or an exception
UpdateIndex(pops, population_name, geom) ==
    IF population_name \notin DOMAIN pops THEN Raised
    ELSE IF pops[population_name].parent = None THEN Raised
    ELSE ShapeIndex(PopulationRows(pops, pops[population_name].parent), geom)

-----------------------------------------------------------------------------
(* The gate registry: self.gates, gate name -> Gate document.              *)

Gate(gate_name, children, parent, method, kwargs, class_) ==
    [gate_name |-> gate_name, children |-> children, parent |-> parent,
     method |-> method, kwargs |-> kwargs, class_ |-> class_]

Range(seq) == {seq[i] : i \in 1..Len(seq)}

\* Gating.gating_classes
GatingClasses ==
    {"Static", "FMOGate", "DensityBasedClustering", "DensityThreshold", "Quantile",
     "MixtureModel"}

\* the gating classes themselves (flow/gating/base, density, static): what
\* get_params and inspect.signature report of them
ConstructorArgs(class_) == {"data", "x", "child_populations"}

Methods(class_) ==
    IF class_ = "DensityThreshold" THEN {"gate_1d", "gate_2d"}
    ELSE IF class_ = "Static" THEN {"rect_gate"}
    ELSE {}

MethodArgs(class_, method) ==
    IF class_ = "Static" THEN {"self", "x_min", "x_max", "y_min", "y_max"} ELSE {"self"}

\* mutant: the parameters of the method are not looked for
CheckClassArgsOfTheConstructor(class_, method, kwargs) ==
    /\ \A arg \in ConstructorArgs(class_) : arg = "data" \/ arg \in DOMAIN kwargs
    /\ method \in Methods(class_)

\* __check_class_args(klass, method, **kwargs)
CheckClassArgs(class_, method, kwargs) ==
    /\ \A arg \in ConstructorArgs(class_) : arg = "data" \/ arg \in DOMAIN kwargs
    /\ method \in Methods(class_)
    /\ \A arg \in MethodArgs(class_, method) : arg = "self" \/ arg \in DOMAIN kwargs

\* mutant: the declared children are not looked up in the tree
ApplyChecksWithoutChildren(pops, gts, gate_name) ==
    /\ gate_name \in DOMAIN gts
    /\ gts[gate_name].parent \in DOMAIN pops

\* __apply_checks(gate_name): TRUE when the gate document is returned
ApplyChecks(pops, gts, gate_name) ==
    /\ gate_name \in DOMAIN gts
    /\ gts[gate_name].parent \in DOMAIN pops
    /\ \A c \in Range(gts[gate_name].children) : c \notin DOMAIN pops

\* mutant: the new nodes hang under the root and are measured against it
UpdatePopulationsUnderRoot(pops, output, warnings, parent_name) ==
    [name \in DOMAIN pops \cup DOMAIN output |->
        IF name \in DOMAIN output
        THEN LET n == Cardinality(output[name].index)
             IN  Node("root", output[name].index, output[name].geom,
                      Prop(n, NEvents), Prop(n, NEvents), warnings)
        ELSE pops[name]]

\* update_populations(output, parent_df, warnings, parent_name): output maps
\* each new name to the index and the geom the gate gave it
UpdatePopulations(pops, output, warnings, parent_name) ==
    [name \in DOMAIN pops \cup DOMAIN output |->
        IF name \in DOMAIN output
        THEN LET n == Cardinality(output[name].index)
             IN  Node(parent_name, output[name].index, output[name].geom,
                      Prop(n, Cardinality(PopulationRows(pops, parent_name))),
                      Prop(n, NEvents), warnings)
        ELSE pops[name]]

\* the outcome of an operation: the tree, the registry, whether it raised
Outcome(pops, gts, raised) == [populations |-> pops, gates |-> gts, raised |-> raised]

\* str(list) of a list of names
RECURSIVE Joined(_)
Joined(names) ==
    IF names = <<>> THEN ""
    ELSE IF Len(names) = 1 THEN "'" \o names[1] \o "'"
    ELSE "'" \o names[1] \o "', " \o Joined(Tail(names))

ListStr(names) == "[" \o Joined(names) \o "]"

MergeGateName(population_left, population_right) ==
    "merge_" \o population_left \o "_" \o population_right

SubtractionGateName(parent, target) == parent \o "_minus_" \o ListStr(target)

\* mutant: the new name is not looked up in the tree
MergeAssertsWithoutNewName(pops, population_left, population_right, new_population_name) ==
    /\ population_left \in DOMAIN pops
    /\ population_right \in DOMAIN pops

\* the assertions merge opens with
MergeAsserts(pops, population_left, population_right, new_population_name) ==
    /\ new_population_name \notin DOMAIN pops
    /\ population_left \in DOMAIN pops
    /\ population_right \in DOMAIN pops

\* Gating.merge(population_left, population_right, new_population_name)
MergeOutcome(pops, gts, population_left, population_right, new_population_name) ==
    IF ~ MergeAsserts(pops, population_left, population_right, new_population_name)
    THEN Outcome(pops, gts, TRUE)
    ELSE IF pops[population_left].parent = None \/ pops[population_right].parent = None
    THEN Outcome(pops, gts, TRUE)
    ELSE IF pops[population_left].parent # pops[population_right].parent
    THEN Outcome(pops, gts, TRUE)
    ELSE LET parent == pops[population_left].parent
             x      == Get(pops[population_left].geom, "x")
             y      == Get(pops[population_left].geom, "y")
             index  == pops[population_left].index \cup pops[population_right].index
         IN  IF \/ ~ ({"x", "y"} \subseteq DOMAIN pops[population_left].geom)
                \/ ~ (index \subseteq PopulationRows(pops, parent))
                \/ ~ HullExists(index, x, y)
             THEN Outcome(pops, gts, TRUE)
             ELSE LET geom == [x |-> x, y |-> y, shape |-> "poly",
                               cords |-> HullVertices(index, x, y)]
                      output == [n \in {new_population_name} |->
                                    [index |-> index, geom |-> geom]]
                      name == MergeGateName(population_left, population_right)
                      kwargs == [left |-> population_left, right |-> population_right,
                                 name |-> new_population_name, x |-> x, y |-> y,
                                 child_populations |-> <<new_population_name>>]
                  IN  Outcome(UpdatePopulations(pops, output, <<>>, parent),
                              Put(gts, name, Gate(name, <<new_population_name>>, parent,
                                                  "merge", kwargs, "merge")),
                              FALSE)

\* mutant: nothing is taken out
setdiff1dOfNothing(pindex, tindex) == pindex

\* mutant: everything is taken out
setdiff1dOfAll(pindex, tindex) == {}

\* np.setdiff1d(pindex, tindex)
setdiff1d(pindex, tindex) == pindex \ tindex

\* the assertions subtraction opens with
SubtractionAsserts(pops, target, parent, new_population_name) ==
    /\ parent \in DOMAIN pops
    /\ \A t \in Range(target) : t \in DOMAIN pops
    /\ new_population_name \notin DOMAIN pops

\* Gating.subtraction(target, parent, new_population_name)
SubtractionOutcome(pops, gts, target, parent, new_population_name) ==
    IF ~ SubtractionAsserts(pops, target, parent, new_population_name)
    THEN Outcome(pops, gts, TRUE)
    ELSE IF ~ ({"x", "y"} \subseteq DOMAIN pops[parent].geom) THEN Outcome(pops, gts, TRUE)
    ELSE IF target = <<>> THEN Outcome(pops, gts, TRUE)
    ELSE LET x == pops[parent].geom.x
             y == pops[parent].geom.y
             tindex == UNION {pops[t].index : t \in Range(target)}
             index == setdiff1d(pops[parent].index, tindex)
             geom == [x |-> x, y |-> y, shape |-> "sub"]
             output == [n \in {new_population_name} |-> [index |-> index, geom |-> geom]]
             name == SubtractionGateName(parent, target)
             kwargs == [parent |-> parent, target |-> target, name |-> new_population_name,
                        x |-> x, y |-> y, child_populations |-> <<new_population_name>>]
         IN  Outcome(UpdatePopulations(pops, output, <<>>, parent),
                     Put(gts, name, Gate(name, <<new_population_name>>, parent,
                                         "subtraction", kwargs, "subtraction")),
                     FALSE)

\* mutant: the named population alone is removed
RemovePopulationAlone(pops, population_name) ==
    Restrict(pops, DOMAIN pops \ {population_name})

\* remove_population(population_name): the tree afterwards
RemovePopulation(pops, population_name) ==
    IF population_name \notin DOMAIN pops THEN pops
    ELSE Restrict(pops, DOMAIN pops \ Dependencies(pops, population_name))

\* mutant: the cascade of edit_gate removes nothing
RemoveEachSkipped(pops, names) == pops

\* for c in names: self.remove_population(c)
RECURSIVE RemoveEach(_, _)
RemoveEach(pops, names) ==
    IF names = {} THEN pops
    ELSE LET c == CHOOSE n \in names : TRUE
         IN  RemoveEach(RemovePopulation(pops, c), names \ {c})

\* mutant: no gate is found downstream
EffectedGatesOfNone(gts, effected_populations) == {}

\* [name for name, gate in self.gates.items() if gate.parent in effected_populations]
EffectedGates(gts, effected_populations) ==
    {name \in DOMAIN gts : gts[name].parent \in effected_populations}

\* the loop of edit_gate over the gate's children, up to its first exception
RECURSIVE EditChildren(_, _, _, _, _)
EditChildren(pops, children, updated_geom, effected_populations, immediate_children) ==
    IF children = <<>>
    THEN [populations |-> pops, raised |-> FALSE,
          effected_populations |-> effected_populations,
          immediate_children |-> immediate_children]
    ELSE LET c == Head(children)
             stopped(p) == [populations |-> p, raised |-> TRUE,
                            effected_populations |-> effected_populations,
                            immediate_children |-> immediate_children]
         IN  IF c \notin DOMAIN updated_geom \/ c \notin DOMAIN pops THEN stopped(pops)
             ELSE LET replaced == [pops EXCEPT ![c].geom = updated_geom[c]]
                      new == UpdateIndex(replaced, c, updated_geom[c])
                  IN  IF new.raised THEN stopped(replaced)
                      ELSE LET edited == [replaced EXCEPT ![c].index = new.index]
                           IN  EditChildren(edited, Tail(children), updated_geom,
                                   effected_populations \cup Dependencies(edited, c),
                                   immediate_children \cup Children(edited, c))

\* mutant: propagate is not looked at
RemovedAloneWhenChildless(gate, propagate) == gate.children = <<>>

\* remove_gate: the gate alone is removed (if not gate.children or not propagate)
RemovedAlone(gate, propagate) == gate.children = <<>> \/ ~ propagate

\* the loop of remove_gate over the gate's children
RECURSIVE RemoveChildren(_, _, _)
RemoveChildren(pops, children, effected_populations) ==
    IF children = <<>>
    THEN [populations |-> pops, effected_populations |-> effected_populations]
    ELSE LET child == Head(children)
         IN  IF child \notin DOMAIN pops
             THEN RemoveChildren(pops, Tail(children), effected_populations)
             ELSE RemoveChildren(RemovePopulation(pops, child), Tail(children),
                      effected_populations \cup Dependencies(pops, child) \cup {child})

-----------------------------------------------------------------------------
(* The calls the model makes: small sets of arguments for each operation.  *)

PopNames == {"root", "a", "b", "c"}

Threshold1D(threshold, definition) ==
    [shape |-> "threshold", x |-> "FSC-A", y |-> None, transform_x |-> None,
     transform_y |-> None, threshold |-> threshold, definition |-> definition]

Rect(x_min, x_max, y_min, y_max, definition) ==
    [shape |-> "rect", x |-> "FSC-A", y |-> "SSC-A", transform_x |-> None,
     transform_y |-> None, x_min |-> x_min, x_max |-> x_max, y_min |-> y_min,
     y_max |-> y_max, definition |-> definition]

\* a gating class run on the parent's rows: what it may give one child
StrategyResults(parent) ==
    {[geom |-> g, index |-> ShapeIndex(parent, g).index] :
        g \in {Threshold1D(2000, "+"), Threshold1D(2000, "-"), Rect(0, 2000, 0, 1000, "+")}}

StrategyWarnings == {<<"low density">>}

\* create_gate(gate_name, parent, class_, method, kwargs, child_populations)
CreateCalls ==
    {[gate_name |-> "G1", parent |-> "root", class_ |-> "DensityThreshold",
      method |-> "gate_2d", kwargs |-> [x |-> "FSC-A"], child_populations |-> <<"a", "b">>],
     [gate_name |-> "G2", parent |-> "a", class_ |-> "DensityThreshold",
      method |-> "gate_1d", kwargs |-> [x |-> "FSC-A"], child_populations |-> <<"c">>],
     [gate_name |-> "G3", parent |-> "a", class_ |-> "DensityThreshold",
      method |-> "gate_1d", kwargs |-> [x |-> "FSC-A"], child_populations |-> <<"b">>],
     [gate_name |-> "G4", parent |-> "root", class_ |-> "Threshold",
      method |-> "gate_1d", kwargs |-> [x |-> "FSC-A"], child_populations |-> <<"c">>],
     [gate_name |-> "G4", parent |-> "root", class_ |-> "Static",
      method |-> "rect_gate", kwargs |-> [x |-> "FSC-A", x_min |-> 0, x_max |-> 2000],
      child_populations |-> <<"c">>],
     [gate_name |-> "G4", parent |-> "root", class_ |-> "DensityThreshold",
      method |-> "gate_3d", kwargs |-> [x |-> "FSC-A"], child_populations |-> <<"c">>],
     [gate_name |-> "G4", parent |-> "root", class_ |-> "DensityThreshold",
      method |-> "gate_1d", kwargs |-> [y |-> "SSC-A"], child_populations |-> <<"c">>]}

\* merge(population_left, population_right, new_population_name)
MergeCalls == {<<"a", "b", "c">>, <<"root", "a", "c">>}

\* subtraction(target, parent, new_population_name)
SubtractionCalls ==
    {<<(<<"a", "b">>), "root", "c">>, <<(<<"b">>), "a", "c">>, <<(<<>>), "root", "c">>}

\* the gate names apply, edit_gate and remove_gate are called with
GateNames ==
    {c.gate_name : c \in CreateCalls}
        \cup {MergeGateName("a", "b"), SubtractionGateName("root", <<"a", "b">>)}

\* edit_gate(gate_name, updated_geom, delete): the updated_geom dictionaries
UpdatedGeoms ==
    {[a |-> Threshold1D(2000, "-"), b |-> Rect(0, 2000, 0, 1000, "+"),
      c |-> Threshold1D(2000, "+")],
     [a |-> Threshold1D(2000, "-")],
     [a |-> Threshold1D(2000, "-"),
      b |-> [shape |-> "circle", x |-> "FSC-A", y |-> "SSC-A"],
      c |-> [shape |-> "threshold", x |-> "FSC-A", transform_x |-> None,
             definition |-> "+"]],
     [a |-> Threshold1D(2000, "-"), b |-> Threshold1D(2000, "?"),
      c |-> [shape |-> "rect", y |-> "SSC-A"]]}

-----------------------------------------------------------------------------
(* The last call: its name, its arguments, how it ended ("ok": it ran to   *)
(* its end; "refused": it reported an error and returned early; "raised":  *)
(* an exception left it), what it returned, what it printed, and the names *)
(* it took out of the tree.                                                *)

NoValue == [kind |-> None, gates |-> {}, populations |-> {}]

BoolValue(b) == [kind |-> IF b THEN "True" ELSE "False", gates |-> {}, populations |-> {}]

TupleValue(effected_gates, effected_populations) ==
    [kind |-> "tuple", gates |-> effected_gates, populations |-> effected_populations]

\* a list of population names that is returned
ListValue(names) == [kind |-> "list", gates |-> {}, populations |-> names]

Call(op, args, status, value, printed) ==
    [op |-> op, args |-> args, status |-> status, value |-> value, printed |-> printed,
     removed |-> DOMAIN populations \ DOMAIN populations']

Status(raised) == IF raised THEN "raised" ELSE "ok"

EmptyMap == [k \in {} |-> None]

\* the gates a file group may hold when the Gating object is built
SavedGates ==
    {EmptyMap,
     [name \in {"G1", "G2", "G3"} |->
        LET call == CHOOSE c \in CreateCalls : c.gate_name = name
        IN  Gate(name, call.child_populations, call.parent, call.method,
                 Put(call.kwargs, "child_populations", call.child_populations),
                 call.class_)]}

\* the model follows a Gating object for this many calls
MaxCalls == 4

\* the rows of each control: self.fmo[fmo], one row per event of the control
NFmoEvents == 2

FmoEvents == 1..NFmoEvents

\* the controls of the sample: the keys of self.fmo
Controls == {"CD4", "CD8"}

\* Gating.__init__ on a sample with saved gates and no saved populations
Init ==
    /\ populations = [n \in {"root"} |-> RootNode]
    /\ gates \in SavedGates
    /\ ret = [op |-> "__init__", args |-> <<>>, status |-> "ok", value |-> NoValue,
              printed |-> {}, removed |-> {}]
    /\ calls = 0
    /\ fmo_search_cache = [fmo \in Controls |-> [root \in {"root"} |-> FmoEvents]]
    /\ filegroup = [populations |-> EmptyMap, gates |-> gates]
    /\ clusters = <<>>
    /\ h5 = EmptyMap

\* one more call is made; no operation but get_fmo_data writes the cache
Tick == calls < MaxCalls /\ calls' = calls + 1 /\ UNCHANGED <<fmo_search_cache, filegroup, clusters, h5>>

\* a name that is not registered is tried once: the calls on "G4", which no
\* create_gate call registers, with one dictionary and the default flags
Tried(gate_name) == gate_name \in DOMAIN gates \/ gate_name = "G4"

TriedWith(gate_name, flags) == gate_name \in DOMAIN gates \/ (gate_name = "G4" /\ flags)

create_gate(call) ==
    LET kwargs == Put(call.kwargs, "child_populations", call.child_populations)
        refused == \/ call.gate_name \in DOMAIN gates
                   \/ call.class_ \notin GatingClasses
                   \/ ~ CheckClassArgs(call.class_, call.method, kwargs)
    IN  /\ Tick
        /\ gates' = IF refused THEN gates
                    ELSE Put(gates, call.gate_name,
                             Gate(call.gate_name, call.child_populations, call.parent,
                                  call.method, kwargs, call.class_))
        /\ UNCHANGED populations
        /\ ret' = Call("create_gate", call, IF refused THEN "refused" ELSE "ok",
                       BoolValue(~ refused), {})

apply(gate_name) ==
    \/ /\ Tick
       /\ Tried(gate_name)
       /\ ~ ApplyChecks(populations, gates, gate_name)
       /\ UNCHANGED <<populations, gates>>
       /\ ret' = Call("apply", gate_name, "refused", NoValue, {})
    \/ /\ Tick
       /\ ApplyChecks(populations, gates, gate_name)
       /\ gates[gate_name].class_ = "merge"
       /\ LET k == gates[gate_name].kwargs
              out == MergeOutcome(populations, gates, k.left, k.right, k.name)
          IN  /\ populations' = out.populations
              /\ gates' = out.gates
              /\ ret' = Call("apply", gate_name, Status(out.raised), NoValue, {})
    \/ /\ Tick
       /\ ApplyChecks(populations, gates, gate_name)
       /\ gates[gate_name].class_ = "subtraction"
       /\ LET k == gates[gate_name].kwargs
              out == SubtractionOutcome(populations, gates, k.target, k.parent, k.name)
          IN  /\ populations' = out.populations
              /\ gates' = out.gates
              /\ ret' = Call("apply", gate_name, Status(out.raised), NoValue, {})
    \/ /\ Tick
       /\ ApplyChecks(populations, gates, gate_name)
       /\ gates[gate_name].class_ \notin {"merge", "subtraction"}
       /\ \E warnings \in StrategyWarnings :
          \E output \in [Range(gates[gate_name].children) ->
                             StrategyResults(PopulationRows(populations,
                                                            gates[gate_name].parent))] :
              /\ populations' = UpdatePopulations(populations, output, warnings,
                                                  gates[gate_name].parent)
              /\ UNCHANGED gates
              /\ ret' = Call("apply", gate_name, "ok", NoValue, {})

merge(call) ==
    LET out == MergeOutcome(populations, gates, call[1], call[2], call[3])
    IN  /\ Tick
        /\ populations' = out.populations
        /\ gates' = out.gates
        /\ ret' = Call("merge", call, Status(out.raised), NoValue, {})

subtraction(call) ==
    LET out == SubtractionOutcome(populations, gates, call[1], call[2], call[3])
    IN  /\ Tick
        /\ populations' = out.populations
        /\ gates' = out.gates
        /\ ret' = Call("subtraction", call, Status(out.raised), NoValue, {})

edit_gate(gate_name, updated_geom, delete) ==
    LET args == [gate_name |-> gate_name, updated_geom |-> updated_geom, delete |-> delete]
    IN  /\ Tick
        /\ TriedWith(gate_name, delete /\ DOMAIN updated_geom = {"a"})
        /\ IF gate_name \notin DOMAIN gates
           THEN /\ UNCHANGED <<populations, gates>>
                /\ ret' = Call("edit_gate", args, "raised", NoValue, {})
           ELSE LET edit == EditChildren(populations, gates[gate_name].children,
                                         updated_geom, {}, {})
                    effected_gates == EffectedGates(gates, edit.effected_populations)
                IN  /\ populations' =
                           IF ~ edit.raised /\ delete
                           THEN RemoveEach(edit.populations, edit.immediate_children)
                           ELSE edit.populations
                    /\ UNCHANGED gates
                    /\ ret' = Call("edit_gate", args, Status(edit.raised), NoValue,
                                   IF edit.raised THEN {} ELSE effected_gates)

remove_population(population_name) ==
    /\ Tick
    /\ populations' = RemovePopulation(populations, population_name)
    /\ UNCHANGED gates
    /\ ret' = Call("remove_population", population_name,
                   IF population_name \in DOMAIN populations THEN "ok" ELSE "refused",
                   NoValue, {})

remove_gate(gate_name, propagate) ==
    LET args == [gate_name |-> gate_name, propagate |-> propagate]
    IN  /\ Tick
        /\ TriedWith(gate_name, propagate)
        /\ IF gate_name \notin DOMAIN gates
           THEN /\ UNCHANGED <<populations, gates>>
                /\ ret' = Call("remove_gate", args, "refused", NoValue, {})
           ELSE IF RemovedAlone(gates[gate_name], propagate)
           THEN /\ gates' = Restrict(gates, DOMAIN gates \ {gate_name})
                /\ UNCHANGED populations
                /\ ret' = Call("remove_gate", args, "ok", BoolValue(TRUE), {})
           ELSE LET loop == RemoveChildren(populations, gates[gate_name].children, {})
                    effected_gates == EffectedGates(gates, loop.effected_populations)
                    twice == gate_name \in effected_gates
                IN  /\ populations' = loop.populations
                    /\ gates' = Restrict(gates,
                                         DOMAIN gates \ (effected_gates \cup {gate_name}))
                    /\ ret' = IF twice
                              THEN Call("remove_gate", args, "raised", NoValue, {})
                              ELSE Call("remove_gate", args, "ok",
                                        TupleValue(effected_gates \cup {gate_name},
                                                   loop.effected_populations), {})

find_dependencies(population) ==
    /\ Tick
    /\ UNCHANGED <<populations, gates>>
    /\ ret' = IF population \notin DOMAIN populations
              THEN Call("find_dependencies", population, "refused", NoValue, {})
              ELSE IF "root" \notin DOMAIN populations
              THEN Call("find_dependencies", population, "raised", NoValue, {})
              ELSE Call("find_dependencies", population, "ok",
                        ListValue(Dependencies(populations, population)), {})

Next ==
    \/ \E call \in CreateCalls : create_gate(call)
    \/ \E gate_name \in GateNames : apply(gate_name)
    \/ \E call \in MergeCalls : merge(call)
    \/ \E call \in SubtractionCalls : subtraction(call)
    \/ \E gate_name \in GateNames, updated_geom \in UpdatedGeoms, delete \in BOOLEAN :
           edit_gate(gate_name, updated_geom, delete)
    \/ \E population_name \in PopNames \cup {"d"} : remove_population(population_name)
    \/ \E gate_name \in GateNames, propagate \in BOOLEAN : remove_gate(gate_name, propagate)
    \/ \E population \in PopNames \cup {"d"} : find_dependencies(population)

Spec == Init /\ [][Next]_vars

-----------------------------------------------------------------------------
(* The controls: get_fmo_data and its cache                                *)

\* [x.name for x in node.path][1:]: from the child of the root down to the node
RECURSIVE Route(_, _)
Route(pops, n) ==
    IF n \notin DOMAIN pops THEN <<n>>
    ELSE IF pops[n].parent = None THEN <<>>
    ELSE Append(Route(pops, pops[n].parent), n)

\* search_fmo_cache(target_population, fmo), for a control of the sample: the
\* cached index alone, or nothing where the code returns None
search_fmo_cache(cache, target_population, fmo) ==
    IF target_population \in DOMAIN cache[fmo] THEN {cache[fmo][target_population]} ELSE {}

\* how a get_fmo_data call ends: the cache it leaves, whether it raised, the
\* rows of the control it returns, how many classifiers it trained
FmoOutcome(cache, raised, rows, trained) ==
    [cache |-> cache, raised |-> raised, rows |-> rows, trained |-> trained]

\* the start position of the route: the search of lines 289 to 293 looks the
\* populations up among the keys of the cache, which are the controls
StartOfRoute(pops, cache, route) ==
    LET found == {i \in 1..Len(route) : route[i] \in DOMAIN cache}
    IN  IF found = {} THEN 0 ELSE CHOOSE i \in found : \A j \in found : j <= i

\* the loop of lines 297 to 325 from one population of the route on: a
\* classifier is trained on the rows of the parent and names the rows of the
\* control that are of the population; what it names is not determined here
\* (sklearn, and a random sample of the training rows)
RECURSIVE PredictRoute(_, _, _, _, _, _)
PredictRoute(pops, cache, fmo, route, cache_idx, trained) ==
    IF route = <<>> THEN {FmoOutcome(cache, FALSE, cache_idx, trained)}
    ELSE LET pop == Head(route)
         IN  IF \/ ~ cache_idx \subseteq FmoEvents
                \/ pop \notin DOMAIN pops
                \/ {"x", "y", "shape"} \cap DOMAIN pops[pop].geom # {"x", "y", "shape"}
             THEN {FmoOutcome(cache, TRUE, {}, trained)}
             ELSE LET x == pops[pop].geom.x
                      y == IF pops[pop].geom.y = None THEN "FSC-A" ELSE pops[pop].geom.y
                      parent == pops[pop].parent
                  IN  IF \/ pops[pop].geom.shape = "sml"
                         \/ parent \notin DOMAIN pops
                         \/ ~ {x, y} \subseteq Columns
                         \/ PopulationRows(pops, parent) = {}
                      THEN {FmoOutcome(cache, TRUE, {}, trained)}
                      ELSE IF cache_idx = {}
                      THEN {FmoOutcome(cache, TRUE, {}, trained + 1)}
                      ELSE UNION {PredictRoute(pops,
                                               [cache EXCEPT ![fmo] = Put(cache[fmo], pop, y_hat)],
                                               fmo, Tail(route), y_hat, trained + 1) :
                                     y_hat \in SUBSET cache_idx}

\* mutant: a call that misses starts the cache of the control afresh
GetFmoDataAfresh(pops, cache, target_population, fmo) ==
    IF fmo \notin DOMAIN cache \/ target_population \notin DOMAIN pops
    THEN {FmoOutcome(cache, TRUE, {}, 0)}
    ELSE PredictRoute(pops, [cache EXCEPT ![fmo] = Restrict(cache[fmo], {"root"})], fmo,
                      Route(pops, target_population), cache[fmo]["root"], 0)

\* the ways get_fmo_data(target_population, fmo, sml_profiles=None) may end
GetFmoData(pops, cache, target_population, fmo) ==
    IF fmo \notin DOMAIN cache THEN {FmoOutcome(cache, TRUE, {}, 0)}
    ELSE IF search_fmo_cache(cache, target_population, fmo) # {}
    THEN {FmoOutcome(cache, FALSE, cache_idx, 0) :
             cache_idx \in search_fmo_cache(cache, target_population, fmo)}
    ELSE IF target_population \notin DOMAIN pops THEN {FmoOutcome(cache, TRUE, {}, 0)}
    ELSE LET path == Route(pops, target_population)
             i == StartOfRoute(pops, cache, path)
         IN  IF i = 0
             THEN PredictRoute(pops, cache, fmo, path, cache[fmo]["root"], 0)
             ELSE IF path[i] \notin DOMAIN pops THEN {FmoOutcome(cache, TRUE, {}, 0)}
             ELSE PredictRoute(pops, cache, fmo, SubSeq(path, i, Len(path)),
                               pops[path[i]].index, 0)

\* _population_to_mongo(population_name): the Population document and its index
PopulationToMongo(pops, population_name) ==
    [population_name |-> population_name,
     parent |-> pops[population_name].parent,
     prop_of_parent |-> pops[population_name].prop_of_parent,
     prop_of_total |-> pops[population_name].prop_of_total,
     warnings |-> pops[population_name].warnings,
     geom |-> pops[population_name].geom,
     n |-> Cardinality(pops[population_name].index),
     index |-> pops[population_name].index]

\* the file group a Gating object is built on: its saved populations, none
\* where the tree is the root alone, and its saved gates
FileGroup(pops, gts) ==
    [populations |-> IF DOMAIN pops = {"root"} THEN EmptyMap
                     ELSE [name \in DOMAIN pops |-> PopulationToMongo(pops, name)],
     gates |-> gts]

\* a population tree a file group may hold: gate G1 applied to the root and
\* gate G2 to its child a, or a supervised classifier in the place of G2
SavedPopulations ==
    LET root == [n \in {"root"} |-> RootNode]
        child(parent, geom) == [geom |-> geom, index |-> ShapeIndex(parent, geom).index]
        G1 == UpdatePopulations(root,
                                [n \in {"a", "b"} |->
                                    IF n = "a" THEN child(Events, Rect(0, 2000, 0, 1000, "+"))
                                    ELSE child(Events, Threshold1D(2000, "+"))],
                                <<>>, "root")
        G2 == UpdatePopulations(G1,
                                [n \in {"c"} |->
                                    child(G1["a"].index, Threshold1D(2000, "-"))],
                                <<>>, "a")
        sml == [G2 EXCEPT !["c"].geom = [shape |-> "sml", x |-> None, y |-> None]]
    IN  {root, G2, sml}

\* Gating.__init__ on a sample with controls, with or without saved populations
InitFMO ==
    /\ populations \in SavedPopulations
    /\ gates = EmptyMap
    /\ ret = [op |-> "__init__", args |-> <<>>, status |-> "ok", value |-> NoValue,
              printed |-> {}, removed |-> {}]
    /\ calls = 0
    /\ fmo_search_cache = [fmo \in Controls |-> [root \in {"root"} |-> FmoEvents]]
    /\ filegroup = FileGroup(populations, gates)
    /\ clusters = <<>>
    /\ h5 = EmptyMap

\* the controls get_fmo_data is called with
FmoNames == Controls \cup {"CD3"}

get_fmo_data(target_population, fmo) ==
    /\ calls < MaxCalls
    /\ calls' = calls + 1
    /\ \E out \in GetFmoData(populations, fmo_search_cache, target_population, fmo) :
          /\ fmo_search_cache' = out.cache
          /\ ret' = [op |-> "get_fmo_data", args |-> <<target_population, fmo>>,
                     status |-> Status(out.raised), value |-> out.rows,
                     trained |-> out.trained, printed |-> {}, removed |-> {}]
    /\ UNCHANGED <<populations, gates, filegroup, clusters, h5>>

NextFMO ==
    \/ \E target_population \in PopNames \cup {"d"}, fmo \in FmoNames :
           get_fmo_data(target_population, fmo)
    \/ \E population_name \in PopNames : remove_population(population_name)

SpecFMO == InitFMO /\ [][NextFMO]_vars

-----------------------------------------------------------------------------
(* The file group of the sample: what is saved of the populations and the  *)
(* gates, and Gating.save                                                  *)

\* the populations save may not replace without overwrite: saved ones whose
\* saved index is not the index in memory
Changed(pops, fg) ==
    {name \in DOMAIN pops \cap DOMAIN fg.populations :
        fg.populations[name].index # pops[name].index}

\* mutant: save replaces a changed index whether or not overwrite is asked
SaveOutcomeOverwriting(pops, gts, fg, overwrite) ==
    [filegroup |->
        [populations |-> [name \in DOMAIN pops |->
                            IF name \in DOMAIN fg.populations \ Changed(pops, fg)
                            THEN fg.populations[name]
                            ELSE PopulationToMongo(pops, name)],
         gates |-> gts],
     raised |-> FALSE]

\* save(overwrite): the file group afterwards, and whether ValueError left it
SaveOutcome(pops, gts, fg, overwrite) ==
    IF Changed(pops, fg) # {} /\ ~ overwrite
    THEN [filegroup |-> fg, raised |-> TRUE]
    ELSE [filegroup |->
            [populations |-> [name \in DOMAIN pops |->
                                IF name \in DOMAIN fg.populations \ Changed(pops, fg)
                                THEN fg.populations[name]
                                ELSE PopulationToMongo(pops, name)],
             gates |-> gts],
          raised |-> FALSE]

save(overwrite) ==
    LET out == SaveOutcome(populations, gates, filegroup, overwrite)
    IN  /\ calls < MaxCalls
        /\ calls' = calls + 1
        /\ filegroup' = out.filegroup
        /\ UNCHANGED <<populations, gates, fmo_search_cache, clusters, h5>>
        /\ ret' = Call("save", overwrite, Status(out.raised),
                       IF out.raised THEN NoValue ELSE BoolValue(TRUE), {})

\* s in t of two Python strings: s is a substring of t
Substring(s, t) ==
    \E i \in 1..(Len(t) + 1), j \in 0..Len(t) : SubSeq(t, i, j) = s

\* populations == all, gates == all: the argument against the builtin
\* function all, which no string and no list equals
EqualsAll(argument) == FALSE

\* p.population_name not in populations, g.gate_name not in gates: for a
\* list the name is an element, for a string it is a substring
NameIn(name, argument) ==
    IF argument.type = "str" THEN Substring(name, argument.str)
    ELSE name \in Range(argument.list)

\* FileGroup.delete_populations(populations): the populations it keeps
DeletePopulations(fg, argument) ==
    IF EqualsAll(argument) THEN EmptyMap
    ELSE Restrict(fg.populations,
                  {name \in DOMAIN fg.populations : ~ NameIn(name, argument)})

\* FileGroup.delete_gates(gates): the gates it keeps
DeleteGates(fg, argument) ==
    IF EqualsAll(argument) THEN EmptyMap
    ELSE Restrict(fg.gates, {name \in DOMAIN fg.gates : ~ NameIn(name, argument)})

Str(str) == [type |-> "str", str |-> str, list |-> <<>>]

List(list) == [type |-> "list", str |-> "", list |-> list]

\* what delete_populations and delete_gates are called with
PopulationArguments == {Str("all"), List(<<>>), List(<<"a">>), List(<<"b", "c">>), List(<<"d">>)}

GateArguments == {Str("all"), List(<<>>), List(<<"G1">>), List(<<"G2", "G3">>), List(<<"G4">>)}

delete_populations(argument) ==
    /\ calls < MaxCalls
    /\ calls' = calls + 1
    /\ filegroup' = [filegroup EXCEPT !.populations = DeletePopulations(filegroup, argument)]
    /\ UNCHANGED <<populations, gates, fmo_search_cache, clusters, h5>>
    /\ ret' = Call("delete_populations", argument, "ok", NoValue, {})

delete_gates(argument) ==
    /\ calls < MaxCalls
    /\ calls' = calls + 1
    /\ filegroup' = [filegroup EXCEPT !.gates = DeleteGates(filegroup, argument)]
    /\ UNCHANGED <<populations, gates, fmo_search_cache, clusters, h5>>
    /\ ret' = Call("delete_gates", argument, "ok", NoValue, {})

\* Gating.__init__ on a sample whose file group holds saved gates, with or
\* without saved populations
InitSave ==
    /\ populations \in SavedPopulations
    /\ gates \in SavedGates
    /\ ret = [op |-> "__init__", args |-> <<>>, status |-> "ok", value |-> NoValue,
              printed |-> {}, removed |-> {}]
    /\ calls = 0
    /\ fmo_search_cache = [fmo \in Controls |-> [root \in {"root"} |-> FmoEvents]]
    /\ filegroup = FileGroup(populations, gates)
    /\ clusters = <<>>
    /\ h5 = EmptyMap

NextSave ==
    \/ \E overwrite \in BOOLEAN : save(overwrite)
    \/ \E gate_name \in GateNames, updated_geom \in UpdatedGeoms, delete \in BOOLEAN :
           edit_gate(gate_name, updated_geom, delete)
    \/ \E population_name \in PopNames : remove_population(population_name)
    \/ \E argument \in PopulationArguments : delete_populations(argument)
    \/ \E argument \in GateArguments : delete_gates(argument)

SpecSave == InitSave /\ [][NextSave]_vars

-----------------------------------------------------------------------------
(* The data layer: Population documents and their merges                   *)
(* (CytoPy/data/population.py, CytoPy/data/populations.py).  An index here *)
(* is the sequence of the array's elements, so that a repeated event is    *)
(* seen.  A polygon's shape is the set of unit cells it covers.            *)

\* the result of a function of the data layer: a value or an exception
Returned(value) == [raised |-> FALSE, error |-> None, value |-> value]

Raises(error) == [raised |-> TRUE, error |-> error, value |-> None]

RECURSIVE SortedSeq(_)
SortedSeq(S) ==
    IF S = {} THEN <<>>
    ELSE LET m == CHOOSE v \in S : \A w \in S : v <= w
         IN  <<m>> \o SortedSeq(S \ {m})

\* np.unique(array)
np_unique(array) == SortedSeq(Range(array))

\* a threshold that is None
NoThreshold == -1

\* a shape that is None: a polygon without vertices has none
NoShape == {}

ThresholdGeom(x, y, transform_x, transform_y, x_threshold, y_threshold) ==
    [kind |-> "ThresholdGeom", x |-> x, y |-> y, transform_x |-> transform_x,
     transform_y |-> transform_y, x_threshold |-> x_threshold,
     y_threshold |-> y_threshold, shape |-> NoShape]

PolygonGeom(x, y, transform_x, transform_y, shape) ==
    [kind |-> "PolygonGeom", x |-> x, y |-> y, transform_x |-> transform_x,
     transform_y |-> transform_y, x_threshold |-> NoThreshold,
     y_threshold |-> NoThreshold, shape |-> shape]

\* Cluster(cluster_id=..., tag=..., meta_label=...)
Cluster(cluster_id, tag, meta_label) ==
    [cluster_id |-> cluster_id, tag |-> tag, meta_label |-> meta_label]

\* Population(population_name=..., n=..., parent=..., ...)
Population(population_name, n, parent, warnings, index, geom, definition) ==
    [population_name |-> population_name, n |-> n, parent |-> parent,
     warnings |-> warnings, index |-> index, geom |-> geom, definition |-> definition,
     clusters |-> <<>>]

\* shape.intersects(other)
Intersects(shape, other) == shape \cap other # {}

\* unary_union([shape, other])
unary_union(shape, other) == shape \cup other

_check_transforms_dimensions(left, right) ==
    /\ left.geom.transform_x = right.geom.transform_x
    /\ left.geom.transform_y = right.geom.transform_y
    /\ left.geom.x = right.geom.x
    /\ left.geom.y = right.geom.y

_merge_index(left, right) == np_unique(left.index \o right.index)

\* left and right as _merge_thresholds leaves them: "left.clusters,
\* right_clusters = [], []" empties the clusters of left
_merge_thresholds_inputs(left, right) ==
    IF left.geom.x_threshold # right.geom.x_threshold THEN <<left, right>>
    ELSE IF left.geom.y_threshold # right.geom.y_threshold THEN <<left, right>>
    ELSE IF left.clusters # <<>> \/ right.clusters # <<>>
    THEN <<[left EXCEPT !.clusters = <<>>], right>>
    ELSE <<left, right>>

_merge_thresholds(left, right, new_population_name) ==
    IF left.geom.x_threshold # right.geom.x_threshold THEN Raises("AssertionError")
    ELSE IF left.geom.y_threshold # right.geom.y_threshold THEN Raises("AssertionError")
    ELSE IF left.definition = None \/ right.definition = None THEN Raises("TypeError")
    ELSE Returned(Population(new_population_name,
                             Len(left.index) + Len(right.index),
                             left.parent,
                             left.warnings \o right.warnings \o <<"MERGED POPULATION">>,
                             _merge_index(left, right),
                             ThresholdGeom(left.geom.x, left.geom.y, left.geom.transform_x,
                                           left.geom.transform_y, left.geom.x_threshold,
                                           left.geom.y_threshold),
                             left.definition \o "," \o right.definition))

\* _check_overlap(left, right) with error=True: TRUE when it returns
_check_overlap(left, right) ==
    /\ left.geom.kind = "PolygonGeom"
    /\ right.geom.kind = "PolygonGeom"
    /\ Intersects(left.geom.shape, right.geom.shape)

_merge_polygons(left, right, new_population_name) ==
    IF ~ _check_overlap(left, right) THEN Raises("AssertionError")
    ELSE LET new_idx == _merge_index(left, right)
         IN  Returned(Population(new_population_name,
                                 Len(new_idx),
                                 left.parent,
                                 left.warnings \o right.warnings \o <<"MERGED POPULATION">>,
                                 new_idx,
                                 PolygonGeom(left.geom.x, left.geom.y, left.geom.transform_x,
                                             left.geom.transform_y,
                                             unary_union(left.geom.shape, right.geom.shape)),
                                 None))

\* f"merge_{left.population_name}_{right.population_name}"
DefaultMergeName(left, right) ==
    "merge_" \o left.population_name \o "_" \o right.population_name

\* a name that "new_population_name or ..." replaces: None and the empty string
Falsy(new_population_name) == new_population_name \in {None, ""}

\* population.merge_populations(left, right, new_population_name)
merge_populations(left, right, new_population_name) ==
    IF ~ _check_transforms_dimensions(left, right) THEN Raises("AssertionError")
    ELSE LET name == IF Falsy(new_population_name) THEN DefaultMergeName(left, right)
                     ELSE new_population_name
         IN  IF left.parent # right.parent THEN Raises("AssertionError")
             ELSE IF left.geom.kind # right.geom.kind THEN Raises("AssertionError")
             ELSE IF left.geom.kind = "ThresholdGeom"
             THEN _merge_thresholds(left, right, name)
             ELSE _merge_polygons(left, right, name)

\* left and right as merge_populations leaves them
merge_populations_inputs(left, right) ==
    IF ~ _check_transforms_dimensions(left, right) THEN <<left, right>>
    ELSE IF left.parent # right.parent THEN <<left, right>>
    ELSE IF left.geom.kind # right.geom.kind THEN <<left, right>>
    ELSE IF left.geom.kind = "ThresholdGeom" THEN _merge_thresholds_inputs(left, right)
    ELSE <<left, right>>

\* reduce(lambda p1, p2: merge_populations(p1, p2), populations) from p1 on
RECURSIVE Reduce(_, _)
Reduce(p1, rest) ==
    IF rest = <<>> THEN Returned(p1)
    ELSE LET merged == merge_populations(p1, Head(rest), None)
         IN  IF merged.raised THEN merged ELSE Reduce(merged.value, Tail(rest))

\* population.merge_multiple_populations(populations, new_population_name)
merge_multiple_populations(pops, new_population_name) ==
    IF /\ new_population_name = None
       /\ Cardinality({pops[i].population_name : i \in 1..Len(pops)}) # 1
    THEN Raises("AssertionError")
    ELSE IF pops = <<>>
    THEN Raises(IF Falsy(new_population_name) THEN "IndexError" ELSE "TypeError")
    ELSE LET name == IF Falsy(new_population_name) THEN pops[1].population_name
                     ELSE new_population_name
             merged_pop == Reduce(Head(pops), Tail(pops))
         IN  IF merged_pop.raised THEN merged_pop
             ELSE Returned([merged_pop.value EXCEPT !.population_name = name])

\* the list as merge_multiple_populations leaves it: the first population is
\* the left of the first merge, and of a list of one it is the population
\* that is renamed and returned
merge_multiple_populations_inputs(pops, new_population_name) ==
    IF /\ new_population_name = None
       /\ Cardinality({pops[i].population_name : i \in 1..Len(pops)}) # 1
    THEN pops
    ELSE IF pops = <<>> THEN pops
    ELSE IF Len(pops) = 1
    THEN <<[pops[1] EXCEPT !.population_name =
                IF Falsy(new_population_name) THEN pops[1].population_name
                ELSE new_population_name]>>
    ELSE [pops EXCEPT ![1] = merge_populations_inputs(pops[1], pops[2])[1]]

\* populations.merge_populations(left, right, new_population_name): it ends
\* in np.concatenate(left.index, right.index), which takes right.index for
\* the axis
populations_merge_populations(left, right, new_population_name) ==
    IF left.parent # right.parent THEN Raises("AssertionError")
    ELSE LET has_shape == <<left.geom.shape # NoShape, right.geom.shape # NoShape>>
         IN  IF has_shape[1] # has_shape[2] THEN Raises("AssertionError")
             ELSE IF has_shape[1]
             THEN IF ~ Intersects(left.geom.shape, right.geom.shape)
                  THEN Raises("AssertionError")
                  ELSE Raises("TypeError")
             ELSE IF left.definition = None \/ right.definition = None
             THEN Raises("TypeError")
             ELSE Raises("AttributeError")

\* the events a threshold on FSC-A selects, as an index array
Selected(threshold, definition) ==
    SortedSeq({e \in Events : IF definition = "+"
                               THEN Column(e, "FSC-A") >= threshold
                               ELSE Column(e, "FSC-A") < threshold})

\* a Population document as a gate leaves it
Document(population_name, parent, index, geom, definition) ==
    Population(population_name, Len(index), parent, <<>>, index, geom, definition)

\* the Population documents the merges are tried on
Documents ==
    LET gate == ThresholdGeom("FSC-A", None, None, None, 2000, NoThreshold)
        gate2d(y_threshold) == ThresholdGeom("FSC-A", "SSC-A", None, None, 2000, y_threshold)
        region(shape) == PolygonGeom("FSC-A", "SSC-A", None, None, shape)
    IN  {Document("pos", "root", Selected(2000, "+"), gate, "+"),
         Document("neg", "root", Selected(2000, "-"), gate, "-"),
         Document("pos", "root", Selected(1000, "+"),
                  ThresholdGeom("FSC-A", None, None, None, 1000, NoThreshold), "+"),
         Document("neg", "a", Selected(2000, "-"), gate, "-"),
         Document("neg", "root", Selected(2000, "-"),
                  ThresholdGeom("SSC-A", None, None, None, 2000, NoThreshold), "-"),
         Document("neg", "root", Selected(2000, "-"),
                  ThresholdGeom("FSC-A", None, "logicle", None, 2000, NoThreshold), "-"),
         Document("pos", "root", <<2>>, gate2d(500), "++"),
         Document("pos", "root", <<3>>, gate2d(500), "+-"),
         Document("pos", "root", <<2>>, gate2d(1000), "++"),
         Document("p", "root", <<1, 2>>, region({1, 2}), None),
         Document("p", "root", <<2, 3>>, region({2, 3}), None),
         Document("q", "root", <<3>>, region({3}), None),
         [Document("pos", "root", Selected(2000, "+"), gate, "+")
            EXCEPT !.clusters = <<Cluster("c1", "t1", None)>>]}

NewNames == {None, "", "m"}

\* the longest list merge_multiple_populations is given
MaxMerged == 3

DocumentLists == UNION {[1..k -> Documents] : k \in 0..MaxMerged}

\* what a call of a function of the data layer leaves to observe
DataCall(op, args, inputs, result) ==
    [op |-> op, args |-> args, status |-> Status(result.raised),
     error |-> result.error, value |-> result.value, inputs |-> inputs]

\* a function of the data layer has no state: one call of it is followed
Once == calls = 0 /\ calls' = 1 /\ UNCHANGED <<fmo_search_cache, filegroup, clusters, h5>>

merge_populations_call(left, right, new_population_name) ==
    /\ Once
    /\ ret' = DataCall("merge_populations", <<left, right, new_population_name>>,
                       merge_populations_inputs(left, right),
                       merge_populations(left, right, new_population_name))
    /\ UNCHANGED <<populations, gates>>

merge_multiple_populations_call(pops, new_population_name) ==
    /\ Once
    /\ ret' = DataCall("merge_multiple_populations", <<pops, new_population_name>>,
                       merge_multiple_populations_inputs(pops, new_population_name),
                       merge_multiple_populations(pops, new_population_name))
    /\ UNCHANGED <<populations, gates>>

populations_merge_populations_call(left, right, new_population_name) ==
    /\ Once
    /\ ret' = DataCall("populations.merge_populations",
                       <<left, right, new_population_name>>, <<left, right>>,
                       populations_merge_populations(left, right, new_population_name))
    /\ UNCHANGED <<populations, gates>>

NextData ==
    \/ \E left \in Documents, right \in Documents, new_population_name \in NewNames :
           merge_populations_call(left, right, new_population_name)
    \/ \E pops \in DocumentLists, new_population_name \in NewNames :
           merge_multiple_populations_call(pops, new_population_name)
    \/ \E left \in Documents, right \in Documents, new_population_name \in NewNames :
           populations_merge_populations_call(left, right, new_population_name)

SpecData == Init /\ [][NextData]_vars

-----------------------------------------------------------------------------
(* get_fmo_data alone, on a tree that is not edited and in which a         *)
(* population has two children.                                             *)

\* the tree __init__ rebuilds: a under root, b and c under a
ForkedPopulations ==
    LET root == [n \in {"root"} |-> RootNode]
        child(parent, geom) == [geom |-> geom, index |-> ShapeIndex(parent, geom).index]
        G == UpdatePopulations(root,
                               [n \in {"a"} |-> child(Events, Rect(0, 3000, 0, 1000, "+"))],
                               <<>>, "root")
    IN  UpdatePopulations(G,
                          [n \in {"b", "c"} |->
                              IF n = "b" THEN child(G["a"].index, Threshold1D(2000, "+"))
                              ELSE child(G["a"].index, Threshold1D(2000, "-"))],
                          <<>>, "a")

InitForked ==
    /\ populations = ForkedPopulations
    /\ gates = EmptyMap
    /\ ret = [op |-> "__init__", args |-> <<>>, status |-> "ok", value |-> NoValue,
              printed |-> {}, removed |-> {}]
    /\ calls = 0
    /\ fmo_search_cache = [fmo \in Controls |-> [root \in {"root"} |-> FmoEvents]]
    /\ filegroup = FileGroup(populations, gates)
    /\ clusters = <<>>
    /\ h5 = EmptyMap

NextForked ==
    \E target_population \in {"a", "b", "c"}, fmo \in Controls :
        get_fmo_data(target_population, fmo)

SpecForked == InitForked /\ [][NextForked]_vars

-----------------------------------------------------------------------------
(* The cache of the controls beside the operations that change the tree    *)

\* the calls made beside get_fmo_data
CacheGateNames == {"G1", "G2"}

CacheGeoms ==
    {[a |-> Threshold1D(2000, "-"), b |-> Rect(0, 2000, 0, 1000, "+"),
      c |-> Threshold1D(2000, "+")]}

NextCache ==
    \/ \E target_population \in {"a", "b", "c"} : get_fmo_data(target_population, "CD4")
    \/ merge(<<"a", "b", "c">>)
    \/ subtraction(<<(<<"b">>), "a", "c">>)
    \/ \E gate_name \in CacheGateNames, updated_geom \in CacheGeoms :
           edit_gate(gate_name, updated_geom, TRUE)
    \/ \E population_name \in {"a", "c"} : remove_population(population_name)
    \/ \E gate_name \in CacheGateNames : remove_gate(gate_name, TRUE)

SpecCache == InitSave /\ [][NextCache]_vars

-----------------------------------------------------------------------------
(* Region evaluation on its own: __update_index called on a population of  *)
(* a saved tree                                                            *)

\* an index array that is returned
IndexValue(index) == [kind |-> "index", gates |-> {}, populations |-> {}, index |-> index]

\* the rectangles __update_index is called with
RectGeoms ==
    {Rect(x_min, x_max, y_min, y_max, definition) :
        x_min \in {0, 2000}, x_max \in {1004, 2000, 3000}, y_min \in {0, 1000},
        y_max \in {0, 1000}, definition \in {"+", "-", "?"}}

update_index(population_name, geom) ==
    LET out == UpdateIndex(populations, population_name, geom)
    IN  /\ Once
        /\ UNCHANGED <<populations, gates>>
        /\ ret' = Call("__update_index", [population_name |-> population_name, geom |-> geom],
                       Status(out.raised),
                       IF out.raised THEN NoValue ELSE IndexValue(out.index), {})

NextIndex ==
    \E population_name \in PopNames \cup {"d"}, geom \in RectGeoms :
        update_index(population_name, geom)

SpecIndex == InitSave /\ [][NextIndex]_vars

\* a geom of shape 2d_threshold
Threshold2D(threshold_x, threshold_y, definition) ==
    [shape |-> "2d_threshold", x |-> "FSC-A", y |-> "SSC-A", transform_x |-> None,
     transform_y |-> None, threshold_x |-> threshold_x, threshold_y |-> threshold_y,
     definition |-> definition]

\* the 2d thresholds __update_index is called with
Threshold2DGeoms ==
    {Threshold2D(threshold_x, threshold_y, definition) :
        threshold_x \in {1000, 1004, 2000, 2500}, threshold_y \in {0, 500, 1000},
        definition \in {"++", "--", "+-", "-+", "+"}}

NextThreshold2D ==
    \E population_name \in PopNames \cup {"d"}, geom \in Threshold2DGeoms :
        update_index(population_name, geom)

SpecThreshold2D == InitSave /\ [][NextThreshold2D]_vars

-----------------------------------------------------------------------------
(* The clusters of a Population document: self.clusters, a list of Cluster *)
(* documents, and the three methods that write it.                          *)

ClusterIds == {"c1", "c2"}

Tags == {"t1", "t2"}

MetaLabels == {None, "m"}

\* a Population document as its constructor leaves it: no clusters
InitPopulation ==
    /\ populations = [n \in {"root"} |-> RootNode]
    /\ gates = EmptyMap
    /\ ret = [op |-> "__init__", args |-> <<>>, status |-> "ok", value |-> NoValue,
              printed |-> {}, removed |-> {}]
    /\ calls = 0
    /\ fmo_search_cache = [fmo \in Controls |-> [root \in {"root"} |-> FmoEvents]]
    /\ filegroup = [populations |-> EmptyMap, gates |-> gates]
    /\ clusters = <<>>
    /\ h5 = EmptyMap

\* one more call on the document; the Gating object is not involved
TickDocument ==
    /\ calls < MaxCalls
    /\ calls' = calls + 1
    /\ UNCHANGED <<populations, gates, fmo_search_cache, filegroup, h5>>

\* Population.add_cluster(cluster)
add_cluster(cluster) ==
    LET exists == \E i \in DOMAIN clusters :
                     /\ clusters[i].cluster_id = cluster.cluster_id
                     /\ clusters[i].tag = cluster.tag
    IN  /\ TickDocument
        /\ clusters' = IF exists THEN clusters ELSE Append(clusters, cluster)
        /\ ret' = Call("add_cluster", cluster, Status(exists), NoValue, {})

\* Population.delete_cluster(cluster_id, tag, meta_label)
delete_cluster(cluster_id, tag, meta_label) ==
    LET args == [cluster_id |-> cluster_id, tag |-> tag, meta_label |-> meta_label]
        given == Cardinality({k \in DOMAIN args : args[k] # None})
        kept(c) == IF cluster_id # None THEN c.cluster_id # cluster_id
                   ELSE IF tag # None THEN c.tag # tag
                   ELSE c.meta_label # meta_label
    IN  /\ TickDocument
        /\ clusters' = IF given # 1 THEN clusters ELSE SelectSeq(clusters, kept)
        /\ ret' = Call("delete_cluster", args, Status(given # 1), NoValue, {})

\* Population.delete_all_clusters(clusters): a list of ids, or "all"
delete_all_clusters(clusters_) ==
    LET kept(c) == c.cluster_id \notin Range(clusters_.list)
    IN  /\ TickDocument
        /\ clusters' = IF clusters_.type = "list" THEN SelectSeq(clusters, kept) ELSE <<>>
        /\ ret' = Call("delete_all_clusters", clusters_, "ok", NoValue, {})

NextPopulation ==
    \/ \E cluster_id \in ClusterIds, tag \in Tags, meta_label \in MetaLabels :
           add_cluster(Cluster(cluster_id, tag, meta_label))
    \/ \E cluster_id \in {None, "c1"}, tag \in {None, "t1"}, meta_label \in MetaLabels :
           delete_cluster(cluster_id, tag, meta_label)
    \/ \E clusters_ \in {Str("all"), List(<<"c1">>), List(<<>>)} :
           delete_all_clusters(clusters_)

SpecPopulation == InitPopulation /\ [][NextPopulation]_vars

-----------------------------------------------------------------------------
(* apply_many: the gates of the registry applied one after the other, on a *)
(* Gating object as __init__ built it.                                      *)

\* apply(gate_name) as apply_many calls it: the ways it may end
ApplyOutcomes(pops, gts, gate_name) ==
    IF ~ ApplyChecks(pops, gts, gate_name) THEN {Outcome(pops, gts, FALSE)}
    ELSE LET G == gts[gate_name]
         IN  IF G.class_ = "merge"
             THEN {MergeOutcome(pops, gts, G.kwargs.left, G.kwargs.right, G.kwargs.name)}
             ELSE IF G.class_ = "subtraction"
             THEN {SubtractionOutcome(pops, gts, G.kwargs.target, G.kwargs.parent,
                                      G.kwargs.name)}
             ELSE {Outcome(UpdatePopulations(pops, output, warnings, G.parent), gts, FALSE) :
                      output \in [Range(G.children) ->
                                     StrategyResults(PopulationRows(pops, G.parent))],
                      warnings \in StrategyWarnings}

\* the loop of apply_many over gates_to_apply; an apply that raises ends it
RECURSIVE ApplyEach(_, _, _)
ApplyEach(pops, gts, gates_to_apply) ==
    IF gates_to_apply = <<>> THEN {Outcome(pops, gts, FALSE)}
    ELSE UNION {IF out.raised THEN {out}
                ELSE ApplyEach(out.populations, out.gates, Tail(gates_to_apply)) :
                   out \in ApplyOutcomes(pops, gts, Head(gates_to_apply))}

\* self.gates.keys(): the names of the registry in the order __init__ read
\* them from the file group, which may be any order
Keys(gts) ==
    {order \in [1..Cardinality(DOMAIN gts) -> DOMAIN gts] :
        \A i, j \in DOMAIN order : order[i] = order[j] => i = j}

\* gates_to_apply, once the call was not turned down
GatesToApply(keys, gates_, apply_all) ==
    IF apply_all THEN keys
    ELSE SelectSeq(keys, LAMBDA name : name \in Range(gates_))

\* mutant: the call goes on when it should have been turned down
ApplyManyAbortsNever(pops, gts, gates_, apply_all) == FALSE

\* apply_many returns before it applied a gate
ApplyManyAborts(pops, gts, gates_, apply_all) ==
    IF apply_all THEN Cardinality(DOMAIN pops) # 1
    ELSE \E x \in Range(gates_) : x \notin DOMAIN gts

\* the registries a file group may hold: any of the gates of CreateCalls
ManyGates ==
    LET saved == CHOOSE gts \in SavedGates : gts # EmptyMap
    IN  {Restrict(saved, names) : names \in SUBSET DOMAIN saved}

\* apply_many(gates, apply_all): the lists of names tried; gates=None is list()
ManyCalls == {<<>>, <<"G1">>, <<"G2", "G1">>, <<"G1", "G4">>}

InitMany ==
    /\ populations \in SavedPopulations
    /\ gates \in ManyGates
    /\ ret = [op |-> "__init__", args |-> <<>>, status |-> "ok", value |-> NoValue,
              printed |-> {}, removed |-> {}]
    /\ calls = 0
    /\ fmo_search_cache = [fmo \in Controls |-> [root \in {"root"} |-> FmoEvents]]
    /\ filegroup = FileGroup(populations, gates)
    /\ clusters = <<>>
    /\ h5 = EmptyMap

apply_many(gates_, apply_all) ==
    /\ Once
    /\ \E keys \in Keys(gates) :
         LET gates_to_apply == GatesToApply(keys, gates_, apply_all)
             args == [gates |-> gates_, apply_all |-> apply_all, keys |-> keys]
         IN  IF ApplyManyAborts(populations, gates, gates_, apply_all)
             THEN /\ UNCHANGED <<populations, gates>>
                  /\ ret' = Call("apply_many", args, "refused", NoValue, {})
             ELSE \E out \in ApplyEach(populations, gates, gates_to_apply) :
                     /\ populations' = out.populations
                     /\ gates' = out.gates
                     /\ ret' = Call("apply_many", args, Status(out.raised), NoValue, {})

NextMany ==
    \E gates_ \in ManyCalls, apply_all \in BOOLEAN : apply_many(gates_, apply_all)

SpecMany == InitMany /\ [][NextMany]_vars

-----------------------------------------------------------------------------
(* The names of the gates: the operations that write self.gates, on a      *)
(* Gating object as __init__ built it.                                      *)

\* the names merge and subtraction give the population they make
NewPopulationNames == {"d", "e"}

NextNames ==
    \/ \E call \in {c \in CreateCalls : c.gate_name \in {"G1", "G2"}} : create_gate(call)
    \/ \E new_population_name \in NewPopulationNames : merge(<<"a", "b", new_population_name>>)
    \/ \E new_population_name \in NewPopulationNames :
           subtraction(<<(<<"b">>), "a", new_population_name>>)

SpecNames == InitSave /\ [][NextNames]_vars

-----------------------------------------------------------------------------
(* remove_gate on a registry whose gates use a name twice: a population    *)
(* name that one gate declares as its child lies, in the tree, above the    *)
(* parent of another gate that declares it too.                             *)

\* the registry __init__ reads: G4 gates c out of root, G5 gates a out of
\* c, G2 gates c out of a
ChainGates ==
    LET gate(gate_name, parent, child) ==
            Gate(gate_name, <<child>>, parent, "gate_1d",
                 [x |-> "FSC-A", child_populations |-> <<child>>], "DensityThreshold")
    IN  [name \in {"G2", "G4", "G5"} |->
            IF name = "G4" THEN gate("G4", "root", "c")
            ELSE IF name = "G5" THEN gate("G5", "c", "a")
            ELSE gate("G2", "a", "c")]

\* Gating.__init__ on a sample with these gates saved and no populations
InitChain ==
    /\ populations = [n \in {"root"} |-> RootNode]
    /\ gates = ChainGates
    /\ ret = [op |-> "__init__", args |-> <<>>, status |-> "ok", value |-> NoValue,
              printed |-> {}, removed |-> {}]
    /\ calls = 0
    /\ fmo_search_cache = [fmo \in Controls |-> [root \in {"root"} |-> FmoEvents]]
    /\ filegroup = FileGroup(populations, gates)
    /\ clusters = <<>>
    /\ h5 = EmptyMap

NextChain ==
    \/ \E gates_ \in {<<"G4">>, <<"G4", "G5">>}, apply_all \in BOOLEAN :
           apply_many(gates_, apply_all)
    \/ \E gate_name \in DOMAIN ChainGates, propagate \in BOOLEAN :
           remove_gate(gate_name, propagate)
    \/ \E population_name \in {"a", "c"} : remove_population(population_name)

SpecChain == InitChain /\ [][NextChain]_vars

-----------------------------------------------------------------------------
(* apply on gates whose parameters name controls: what the gating class is *)
(* given under 'fmo_x' and 'fmo_y'.                                         *)

\* a parameter of the gating class: the name of a control as the gate
\* stores it, the rows of a control as get_fmo_data returns them, or none
ControlName(fmo) == [kind |-> "name", name |-> fmo, rows |-> {}]

ControlRows(rows) == [kind |-> "rows", name |-> "", rows |-> rows]

NoControl == [kind |-> "absent", name |-> "", rows |-> {}]

\* gkwargs: the parameters of the gate, then those of the call over them
Overlay(gate_kwargs, kwargs) ==
    [k \in DOMAIN gate_kwargs \cup DOMAIN kwargs |->
        IF k \in DOMAIN kwargs THEN kwargs[k] ELSE gate_kwargs[k]]

ApplyKwargsOutcome(pops, gts, cache, status, fmo_x, fmo_y) ==
    [populations |-> pops, gates |-> gts, cache |-> cache, status |-> status,
     fmo_x |-> fmo_x, fmo_y |-> fmo_y]

\* if 'fmo_x' in gkwargs.keys()
ReplacesFmoX(gkwargs, kwargs) == "fmo_x" \in DOMAIN gkwargs

\* if 'fmo_y' in kwargs.keys()
ReplacesFmoY(gkwargs, kwargs) == "fmo_y" \in DOMAIN kwargs

\* apply(gate_name, **kwargs): the ways it may end
ApplyKwargsOutcomes(pops, gts, cache, gate_name, kwargs) ==
    IF ~ ApplyChecks(pops, gts, gate_name)
    THEN {ApplyKwargsOutcome(pops, gts, cache, "refused", NoControl, NoControl)}
    ELSE
    LET G == gts[gate_name]
        gkwargs == Overlay(G.kwargs, kwargs)
        stored(key) == IF key \in DOMAIN gkwargs THEN ControlName(gkwargs[key]) ELSE NoControl
        raised(c) == ApplyKwargsOutcome(pops, gts, c, "raised", NoControl, NoControl)
        invoke(c, fmo_x, fmo_y) ==
            IF G.class_ = "merge"
            THEN LET out == MergeOutcome(pops, gts, G.kwargs.left, G.kwargs.right,
                                         G.kwargs.name)
                 IN  {ApplyKwargsOutcome(out.populations, out.gates, c, Status(out.raised),
                                         NoControl, NoControl)}
            ELSE IF G.class_ = "subtraction"
            THEN LET out == SubtractionOutcome(pops, gts, G.kwargs.target, G.kwargs.parent,
                                               G.kwargs.name)
                 IN  {ApplyKwargsOutcome(out.populations, out.gates, c, Status(out.raised),
                                         NoControl, NoControl)}
            ELSE {ApplyKwargsOutcome(UpdatePopulations(pops, output, warnings, G.parent),
                                     gts, c, "ok", fmo_x, fmo_y) :
                     output \in [Range(G.children) ->
                                    StrategyResults(PopulationRows(pops, G.parent))],
                     warnings \in StrategyWarnings}
        second(c, fmo_x) ==
            IF ~ ReplacesFmoY(gkwargs, kwargs) THEN invoke(c, fmo_x, stored("fmo_y"))
            ELSE UNION {IF out.raised THEN {raised(out.cache)}
                        ELSE invoke(out.cache, fmo_x, ControlRows(out.rows)) :
                           out \in GetFmoData(pops, c, G.parent, gkwargs.fmo_y)}
    IN  IF ~ ReplacesFmoX(gkwargs, kwargs) THEN second(cache, stored("fmo_x"))
        ELSE UNION {IF out.raised THEN {raised(out.cache)}
                    ELSE second(out.cache, ControlRows(out.rows)) :
                       out \in GetFmoData(pops, cache, G.parent, gkwargs.fmo_x)}

\* the gates __init__ reads: each gates a new population out of a, and
\* stores a control under 'fmo_x', under 'fmo_y' or under both
ControlGates ==
    LET gate(gate_name, child, kwargs) ==
            Gate(gate_name, <<child>>, "a", "gate_2d",
                 Overlay([x |-> "FSC-A", y |-> "SSC-A", child_populations |-> <<child>>],
                         kwargs),
                 "DensityThreshold")
    IN  [name \in {"GX", "GY", "GXY"} |->
            IF name = "GX" THEN gate("GX", "d", [fmo_x |-> "CD4"])
            ELSE IF name = "GY" THEN gate("GY", "e", [fmo_y |-> "CD8"])
            ELSE gate("GXY", "f", [fmo_x |-> "CD4", fmo_y |-> "CD8"])]

\* the parameters apply is called with
ControlKwargs == {EmptyMap, [fmo_y |-> "CD4"], [fmo_x |-> "CD3"]}

\* Gating.__init__ on a sample with controls, a saved tree and these gates
InitControls ==
    /\ populations = CHOOSE pops \in SavedPopulations :
                         "c" \in DOMAIN pops /\ pops["c"].geom.shape # "sml"
    /\ gates = ControlGates
    /\ ret = [op |-> "__init__", args |-> <<>>, status |-> "ok", value |-> NoValue,
              printed |-> {}, removed |-> {}]
    /\ calls = 0
    /\ fmo_search_cache = [fmo \in Controls |-> [root \in {"root"} |-> FmoEvents]]
    /\ filegroup = FileGroup(populations, gates)
    /\ clusters = <<>>
    /\ h5 = EmptyMap

apply_kwargs(gate_name, kwargs) ==
    /\ calls < MaxCalls
    /\ calls' = calls + 1
    /\ \E out \in ApplyKwargsOutcomes(populations, gates, fmo_search_cache, gate_name, kwargs) :
          /\ populations' = out.populations
          /\ gates' = out.gates
          /\ fmo_search_cache' = out.cache
          /\ ret' = [op |-> "apply", args |-> [gate_name |-> gate_name, kwargs |-> kwargs],
                     status |-> out.status, value |-> NoValue, printed |-> {},
                     removed |-> {}, fmo_x |-> out.fmo_x, fmo_y |-> out.fmo_y]
    /\ UNCHANGED <<filegroup, clusters, h5>>

NextControls ==
    \E gate_name \in DOMAIN ControlGates, kwargs \in ControlKwargs :
        apply_kwargs(gate_name, kwargs)

SpecControls == InitControls /\ [][NextControls]_vars

-----------------------------------------------------------------------------
(* ClusteringExperiment: self.clusters, a list of Cluster documents, and   *)
(* h5, the datasets of the file at self.h5path, one index under each name.  *)

\* a Cluster of an experiment, after add_cluster and label_cluster
ExperimentCluster(cluster_id, label, index) ==
    [cluster_id |-> cluster_id, label |-> label, index |-> index]

\* the longest list of clusters an experiment holds
MaxClusters == 3

\* the clusters add_cluster made: the ids differ (add_cluster asserts it),
\* the labels differ (label_cluster asserts it)
ExperimentClusters ==
    LET cluster(i) == ExperimentCluster(<<"k1", "k2", "k3", "k4", "k5">>[i],
                                        <<"l1", "l2", "l3", "l4", "l5">>[i],
                                        {e \in Events : e <= i})
        made == {cluster(i) : i \in 1..MaxClusters}
    IN  UNION {{list \in [1..n -> made] : \A i, j \in 1..n : list[i] = list[j] => i = j} :
                  n \in 0..MaxClusters}

\* h5py.File(self.h5path, "w"): the file is made anew, without datasets
Truncated(f) == EmptyMap

\* f.create_dataset(name, data=data)
create_dataset(f, name, data) == Put(f, name, data)

\* the loop of save: each cluster is written to a file opened with "w"
RECURSIVE SaveClusters(_, _)
SaveClusters(f, list) ==
    IF list = <<>> THEN f
    ELSE SaveClusters(create_dataset(Truncated(f), Head(list).cluster_id, Head(list).index),
                      Tail(list))

\* an experiment with its clusters, before its file holds a dataset
InitExperiment ==
    /\ populations = [n \in {"root"} |-> RootNode]
    /\ gates = EmptyMap
    /\ ret = [op |-> "__init__", args |-> <<>>, status |-> "ok", value |-> NoValue,
              printed |-> {}, removed |-> {}]
    /\ calls = 0
    /\ fmo_search_cache = [fmo \in Controls |-> [root \in {"root"} |-> FmoEvents]]
    /\ filegroup = [populations |-> EmptyMap, gates |-> gates]
    /\ clusters \in ExperimentClusters
    /\ h5 = EmptyMap

\* one more call on the experiment; the Gating object is not involved
TickExperiment ==
    /\ calls < MaxCalls
    /\ calls' = calls + 1
    /\ UNCHANGED <<populations, gates, fmo_search_cache, filegroup>>

\* ClusteringExperiment.save()
ClusteringExperiment_save ==
    /\ TickExperiment
    /\ h5' = SaveClusters(h5, clusters)
    /\ UNCHANGED clusters
    /\ ret' = Call("ClusteringExperiment.save", <<>>, "ok", NoValue, {})

\* ClusteringExperiment.remove_cluster(cluster_id, label)
ClusteringExperiment_remove_cluster(cluster_id, label) ==
    LET args == [cluster_id |-> cluster_id, label |-> label]
        labelled == SelectSeq(clusters, LAMBDA c : c.label = label)
        ids == {clusters[i].cluster_id : i \in DOMAIN clusters}
        fails == IF label # None THEN Len(labelled) = 1 \/ labelled = <<>>
                 ELSE cluster_id \in {None, ""} \/ cluster_id \notin ids
        id == IF label # None /\ labelled # <<>> THEN labelled[1].cluster_id ELSE cluster_id
        f == Truncated(h5)
    IN  /\ TickExperiment
        /\ IF fails
           THEN /\ UNCHANGED <<clusters, h5>>
                /\ ret' = Call("ClusteringExperiment.remove_cluster", args, "raised",
                               NoValue, {})
           ELSE IF id \notin DOMAIN f
           THEN /\ h5' = f
                /\ UNCHANGED clusters
                /\ ret' = Call("ClusteringExperiment.remove_cluster", args, "raised",
                               NoValue, {})
           ELSE /\ h5' = Restrict(f, DOMAIN f \ {id})
                /\ clusters' = SelectSeq(clusters, LAMBDA c : c.cluster_id # id)
                /\ ret' = Call("ClusteringExperiment.remove_cluster", args, "ok",
                               NoValue, {})

NextExperiment ==
    \/ ClusteringExperiment_save
    \/ \E cluster_id \in {None, "k1", "k2", "k9"}, label \in {None, "l1", "l9"} :
           ClusteringExperiment_remove_cluster(cluster_id, label)

SpecExperiment == InitExperiment /\ [][NextExperiment]_vars

-----------------------------------------------------------------------------
(* Claims.                                                                 *)

\* every non-root population's index lies within its parent's index
TreeNested(pops) ==
    \A n \in DOMAIN pops :
        pops[n].parent # None =>
            /\ pops[n].parent \in DOMAIN pops
            /\ pops[n].index \subseteq pops[pops[n].parent].index

Completed(call) == call.status # "raised"

EditWithoutCascade(call) == call.op = "edit_gate" /\ ~ call.args.delete

\* C1, as stated: every completed public operation, edit_gate without cascade
\* included, takes a tree whose indices are nested in their parents' to a tree
\* whose indices are nested in their parents'.
C1_NestedAfterEveryCompletedCall ==
    [][(TreeNested(populations) /\ Completed(ret')) => TreeNested(populations')]_vars

\* C1, amended: every completed public operation other than edit_gate with
\* delete=False takes a tree whose indices are nested in their parents' to a
\* tree whose indices are nested in their parents'; so every state reached from
\* construction by completed calls that cascade has p.index within
\* parent(p).index for every non-root p.
C1_NestedAfterCascadingCalls ==
    [][(TreeNested(populations) /\ Completed(ret') /\ ~ EditWithoutCascade(ret'))
          => TreeNested(populations')]_vars

\* an edit with cascade went through, changed an index and removed the
\* children of the edited population
C1_Witness ==
    /\ ret.op = "edit_gate"
    /\ ret.status = "ok"
    /\ ret.args.delete
    /\ ret.removed # {}
    /\ TreeNested(populations)
    /\ \E c \in DOMAIN populations :
          /\ c \in DOMAIN ret.args.updated_geom
          /\ populations[c].geom = ret.args.updated_geom[c]
          /\ populations[c].index # {}

\* C2, as stated: 'root' is in the tree in every reachable state.
C2_RootAlwaysPresent == "root" \in DOMAIN populations

\* the registered gate a remove_gate call without propagation names, when it
\* has children
UnpropagatedOnChildren(call, gts) ==
    /\ call.op = "remove_gate"
    /\ ~ call.args.propagate
    /\ call.args.gate_name \in DOMAIN gts
    /\ gts[call.args.gate_name].children # <<>>

Applied(pops, gts, gate_name) ==
    /\ gate_name \in DOMAIN gts
    /\ gts[gate_name].children # <<>>
    /\ \A c \in Range(gts[gate_name].children) :
          c \in DOMAIN pops /\ pops[c].parent = gts[gate_name].parent

\* the populations whose path from root passes through one of the names
Downstream(pops, names) ==
    {n \in DOMAIN pops : \E c \in names : c \in Path(pops, n)}

\* C4: remove_gate(G, propagate=True) on an applied gate returns (gates,
\* populations) with populations the dependents of G's children and gates G
\* and the gates whose parent is one of them; none of the returned
\* populations is in the tree afterwards, none of the returned gates in the
\* registry.
C4_PropagatedRemovalReturnsWhatItRemoved ==
    [][(/\ ret'.op = "remove_gate"
        /\ ret'.args.propagate
        /\ Applied(populations, gates, ret'.args.gate_name))
          => LET G == ret'.args.gate_name
                 affected == Downstream(populations, Range(gates[G].children))
                 removed == {G} \cup {g \in DOMAIN gates : gates[g].parent \in affected}
             IN  /\ ret'.status = "ok"
                 /\ ret'.value.kind = "tuple"
                 /\ ret'.value.populations = affected
                 /\ ret'.value.gates = removed
                 /\ DOMAIN populations' \cap affected = {}
                 /\ DOMAIN gates' \cap removed = {}]_vars

\* G1 was removed with its children a and b, the population c under a, and
\* the gates G2 and G3 on a
C4_Witness ==
    /\ ret.op = "remove_gate"
    /\ ret.args.propagate
    /\ ret.args.gate_name = "G1"
    /\ ret.status = "ok"
    /\ ret.value.populations = {"a", "b", "c"}
    /\ ret.value.gates = {"G1", "G2", "G3"}
    /\ ret.removed = {"a", "b", "c"}
    /\ DOMAIN populations = {"root"}

\* a proportion the code stored is n / d
PropIs(prop, n, d) == IF n = 0 THEN prop[1] = 0 ELSE d # 0 /\ prop[1] * d = n * prop[2]

\* C5, as stated: in every reachable state each population's prop_of_parent is
\* |index| / |parent index| and its prop_of_total is |index| / |root index|.
C5_ProportionsFollowTheIndex ==
    \A n \in DOMAIN populations :
        populations[n].parent # None =>
            /\ PropIs(populations[n].prop_of_parent, Cardinality(populations[n].index),
                      Cardinality(populations[populations[n].parent].index))
            /\ PropIs(populations[n].prop_of_total, Cardinality(populations[n].index),
                      Cardinality(populations["root"].index))

\* what apply checks first, read off the claim: the gate is registered, its
\* parent is in the tree, none of its declared children is
Appliable(pops, gts, gate_name) ==
    /\ gate_name \in DOMAIN gts
    /\ gts[gate_name].parent \in DOMAIN pops
    /\ Range(gts[gate_name].children) \cap DOMAIN pops = {}

\* C6: apply(name) fails and leaves tree and registry unchanged when the gate
\* is not registered, its parent is not in the tree, or one of its declared
\* children is already in the tree.
C6_ApplyRefusedLeavesAllUnchanged ==
    [][(ret'.op = "apply" /\ ~ Appliable(populations, gates, ret'.args))
          => /\ ret'.status = "refused"
             /\ populations' = populations
             /\ gates' = gates]_vars

\* apply was refused on a registered gate whose parent is in the tree: one of
\* its children was there already
C6_Witness ==
    /\ ret.op = "apply"
    /\ ret.status = "refused"
    /\ ret.args \in DOMAIN gates
    /\ gates[ret.args].parent \in DOMAIN populations
    /\ Range(gates[ret.args].children) \cap DOMAIN populations # {}

\* the call is a merge or a subtraction with a new name that is taken or an
\* input population that is not in the tree
InvalidSetCall(call, pops) ==
    \/ /\ call.op = "merge"
       /\ \/ call.args[3] \in DOMAIN pops
          \/ call.args[1] \notin DOMAIN pops
          \/ call.args[2] \notin DOMAIN pops
    \/ /\ call.op = "subtraction"
       /\ \/ call.args[3] \in DOMAIN pops
          \/ call.args[2] \notin DOMAIN pops
          \/ \E t \in Range(call.args[1]) : t \notin DOMAIN pops

\* C7: merge and subtraction fail, and change neither tree nor registry, when
\* the new name is in the tree already or an input population is not.
C7_InvalidMergeOrSubtractionChangesNothing ==
    [][InvalidSetCall(ret', populations)
          => /\ ret'.status = "raised"
             /\ populations' = populations
             /\ gates' = gates]_vars

\* a merge of two populations of the tree failed on a new name that is taken
C7_Witness ==
    /\ ret.op = "merge"
    /\ ret.status = "raised"
    /\ {ret.args[1], ret.args[2], ret.args[3]} \subseteq DOMAIN populations
    /\ populations[ret.args[1]].parent = populations[ret.args[2]].parent

\* C8, as stated: an edit_gate call that fails leaves every population with the
\* geometry and the index it had before the call.
C8_FailedEditChangesNoPopulation ==
    [][(ret'.op = "edit_gate" /\ ret'.status = "raised")
          => /\ DOMAIN populations' = DOMAIN populations
             /\ \A n \in DOMAIN populations :
                   /\ populations'[n].geom = populations[n].geom
                   /\ populations'[n].index = populations[n].index]_vars

\* the gates whose parent is one of the gate's children or lies under one
DownstreamGates(pops, gts, gate_name) ==
    {g \in DOMAIN gts : gts[g].parent \in Downstream(pops, Range(gts[gate_name].children))}

\* C9, as stated: remove_population returns the names of the populations it
\* removed, and edit_gate with cascade returns the populations it removed and
\* the downstream gates that must be applied again.
C9_CascadesReturnWhatTheyRemoved ==
    [][/\ (ret'.op = "remove_population" /\ ret'.status = "ok")
            => (ret'.value.kind # None /\ ret'.value.populations = ret'.removed)
       /\ (ret'.op = "edit_gate" /\ ret'.status = "ok" /\ ret'.args.delete)
            => /\ ret'.value.kind # None
               /\ ret'.value.populations = ret'.removed
               /\ ret'.value.gates =
                      DownstreamGates(populations, gates, ret'.args.gate_name)]_vars

\* C9, amended: remove_population and edit_gate return None, edit_gate prints
\* the downstream gates that must be applied again, and only remove_gate with
\* propagation returns the gates and the populations it removed.
C9_OnlyGateRemovalReturnsWhatItRemoved ==
    [][/\ ret'.op = "remove_population" => ret'.value.kind = None
       /\ (ret'.op = "edit_gate" /\ ret'.status = "ok")
            => /\ ret'.value.kind = None
               /\ ret'.printed = DownstreamGates(populations, gates, ret'.args.gate_name)
       /\ (ret'.op = "remove_gate" /\ ret'.status = "ok" /\ ret'.value.kind = "tuple")
            => /\ ret'.value.populations = ret'.removed
               /\ ret'.value.gates = DOMAIN gates \ DOMAIN gates']_vars

\* an edit with cascade removed populations, named the gates to apply again
\* and returned None
C9_Witness ==
    /\ ret.op = "edit_gate"
    /\ ret.status = "ok"
    /\ ret.args.delete
    /\ ret.removed # {}
    /\ ret.printed # {}
    /\ ret.value.kind = None

\* C10, as stated: after a successful edit_gate(G, geoms) with cascade each
\* child c of G is in the tree with geometry geoms[c] and the index geoms[c]
\* selects from the events of c's parent, and every population that was under
\* an edited population is out of the tree.
C10_EditKeepsChildrenAndDropsTheirDescendants ==
    [][(ret'.op = "edit_gate" /\ ret'.status = "ok" /\ ret'.args.delete)
          => LET children == Range(gates[ret'.args.gate_name].children)
                 geoms == ret'.args.updated_geom
             IN  /\ \A c \in children :
                       /\ c \in DOMAIN populations'
                       /\ populations'[c].geom = geoms[c]
                       /\ populations'[c].parent \in DOMAIN populations'
                       /\ populations'[c].index =
                              ShapeIndex(PopulationRows(populations', populations'[c].parent),
                                         geoms[c]).index
                 /\ \A n \in Downstream(populations, children) \ children :
                       n \notin DOMAIN populations']_vars

\* the two documents meet what a merge asks of its inputs: one parent, the
\* same axes and transforms, the same kind of geometry, and equal thresholds
\* with a definition each or overlapping polygons
Mergeable(left, right) ==
    /\ left.parent = right.parent
    /\ left.geom.x = right.geom.x /\ left.geom.y = right.geom.y
    /\ left.geom.transform_x = right.geom.transform_x
    /\ left.geom.transform_y = right.geom.transform_y
    /\ left.geom.kind = right.geom.kind
    /\ IF left.geom.kind = "ThresholdGeom"
       THEN /\ left.geom.x_threshold = right.geom.x_threshold
            /\ left.geom.y_threshold = right.geom.y_threshold
            /\ left.definition # None /\ right.definition # None
       ELSE left.geom.shape \cap right.geom.shape # {}

\* the index array holds each event of the input arrays, once
IsUnionOf(index, arrays) ==
    LET events == UNION {Range(arrays[i]) : i \in 1..Len(arrays)}
    IN  Range(index) = events /\ Len(index) = Cardinality(events)

\* C11, as stated: a merge of two populations, and a merge of several in any
\* order, gives a population whose index is the union of the inputs' indexes
\* with every event counted once.
C11_MergedIndexIsTheUnion ==
    /\ (/\ ret.op \in {"merge_populations", "populations.merge_populations"}
        /\ Mergeable(ret.args[1], ret.args[2]))
          => /\ ret.status = "ok"
             /\ IsUnionOf(ret.value.index, <<ret.args[1].index, ret.args[2].index>>)
    /\ (/\ ret.op = "merge_multiple_populations"
        /\ ret.args[2] # None
        /\ Len(ret.args[1]) > 1
        /\ \A i, j \in 1..Len(ret.args[1]) : Mergeable(ret.args[1][i], ret.args[1][j]))
          => /\ ret.status = "ok"
             /\ IsUnionOf(ret.value.index,
                          [i \in 1..Len(ret.args[1]) |-> ret.args[1][i].index])

\* left and right are the "+" and the "-" child of one 1D threshold on the
\* parent they share
ThresholdPair(pops, population_left, population_right) ==
    /\ {population_left, population_right} \subseteq DOMAIN pops
    /\ pops[population_left].parent = pops[population_right].parent
    /\ pops[population_left].parent \in DOMAIN pops
    /\ \A n \in {population_left, population_right} :
          /\ Get(pops[n].geom, "shape") = "threshold"
          /\ {"x", "threshold", "definition"} \subseteq DOMAIN pops[n].geom
          /\ pops[n].index = ShapeIndex(PopulationRows(pops, pops[n].parent),
                                        pops[n].geom).index
    /\ pops[population_left].geom.x = pops[population_right].geom.x
    /\ pops[population_left].geom.threshold = pops[population_right].geom.threshold
    /\ pops[population_left].geom.definition = "+"
    /\ pops[population_right].geom.definition = "-"

\* C12, as stated: merging the "+" and the "-" child of one 1D threshold gate
\* gives a population with the index of their parent and the definition "+,-".
C12_MergedThresholdPairIsTheParent ==
    [][(/\ ret'.op = "merge"
        /\ ret'.args[3] \notin DOMAIN populations
        /\ ThresholdPair(populations, ret'.args[1], ret'.args[2]))
          => LET new_population_name == ret'.args[3]
                 parent == populations[ret'.args[1]].parent
             IN  /\ ret'.status = "ok"
                 /\ new_population_name \in DOMAIN populations'
                 /\ populations'[new_population_name].index = populations[parent].index
                 /\ Get(populations'[new_population_name].geom, "definition") = "+,-"]_vars

\* two populations of the tree differ in parent, in an axis, in a transform
\* or in the kind of their geometry
Unlike(pops, population_left, population_right) ==
    LET left == pops[population_left]
        right == pops[population_right]
    IN  \/ left.parent # right.parent
        \/ \E k \in {"x", "y", "transform_x", "transform_y", "shape"} :
               Get(left.geom, k) # Get(right.geom, k)

\* C13, as stated: a merge of two populations with different parents, axes,
\* transforms or kinds of geometry fails and leaves no new population and no
\* new gate.
C13_UnlikePopulationsAreNotMerged ==
    [][(/\ ret'.op = "merge"
        /\ {ret'.args[1], ret'.args[2]} \subseteq DOMAIN populations
        /\ Unlike(populations, ret'.args[1], ret'.args[2]))
          => /\ ret'.status = "raised"
             /\ DOMAIN populations' = DOMAIN populations
             /\ DOMAIN gates' = DOMAIN gates]_vars

\* a merge of two populations with threshold geometries was called
ThresholdMerge(call) ==
    /\ call.op \in {"merge_populations", "populations.merge_populations"}
    /\ call.args[1].geom.kind = "ThresholdGeom"
    /\ call.args[2].geom.kind = "ThresholdGeom"

\* C14, as stated: a merge of two threshold populations fails on a
\* consistency check unless their x thresholds are equal and their y
\* thresholds are equal; when it succeeds the result has those thresholds and
\* the definition "<left definition>,<right definition>".
C14_ThresholdsMustAgree ==
    ThresholdMerge(ret) =>
        LET left == ret.args[1]
            right == ret.args[2]
        IN  /\ (\/ left.geom.x_threshold # right.geom.x_threshold
                \/ left.geom.y_threshold # right.geom.y_threshold)
                  => (ret.status = "raised" /\ ret.error = "AssertionError")
            /\ ret.status = "ok"
                  => /\ ret.value.geom.x_threshold = left.geom.x_threshold
                     /\ ret.value.geom.y_threshold = left.geom.y_threshold
                     /\ ret.value.definition = left.definition \o "," \o right.definition

\* C15: subtraction(target, parent, new_population_name) creates one
\* population under parent, with the parent's index minus the union of the
\* targets' indexes and a geom of the parent's x and y and shape "sub", and
\* registers one gate of class "subtraction" whose only child is the new name.
C15_SubtractionCreatesTheDifference ==
    [][(ret'.op = "subtraction" /\ ret'.status = "ok")
          => LET target == ret'.args[1]
                 parent == ret'.args[2]
                 new_population_name == ret'.args[3]
                 created == populations'[new_population_name]
                 registered == {g \in DOMAIN gates' : g \notin DOMAIN gates \/ gates'[g] # gates[g]}
             IN  /\ DOMAIN populations' = DOMAIN populations \cup {new_population_name}
                 /\ new_population_name \notin DOMAIN populations
                 /\ \A n \in DOMAIN populations : populations'[n] = populations[n]
                 /\ created.parent = parent
                 /\ created.index = {e \in populations[parent].index :
                                        \A t \in Range(target) : e \notin populations[t].index}
                 /\ created.geom = [x |-> populations[parent].geom.x,
                                    y |-> populations[parent].geom.y, shape |-> "sub"]
                 /\ DOMAIN gates \subseteq DOMAIN gates'
                 /\ Cardinality(registered) <= 1
                 /\ \E g \in DOMAIN gates' :
                       /\ registered \subseteq {g}
                       /\ gates'[g].class_ = "subtraction"
                       /\ gates'[g].parent = parent
                       /\ gates'[g].children = <<new_population_name>>]_vars

\* a subtraction took two targets that hold events of the parent out of it
C15_Witness ==
    /\ ret.op = "subtraction"
    /\ ret.status = "ok"
    /\ Len(ret.args[1]) = 2
    /\ ret.args[3] \in DOMAIN populations
    /\ populations[ret.args[3]].index # populations[ret.args[2]].index
    /\ populations[ret.args[3]].geom.shape = "sub"
    /\ \E g \in DOMAIN gates : gates[g].class_ = "subtraction"

\* C16: for a population A whose index lies within the parent's, the index of
\* subtraction([A], parent, new) and the index of A are disjoint and their
\* union is the parent's index.
C16_SubtractionComplementsItsTarget ==
    [][(/\ ret'.op = "subtraction"
        /\ ret'.status = "ok"
        /\ Len(ret'.args[1]) = 1
        /\ populations[ret'.args[1][1]].index \subseteq populations[ret'.args[2]].index)
          => LET A == populations'[ret'.args[1][1]].index
                 parent == populations'[ret'.args[2]].index
                 subtracted == populations'[ret'.args[3]].index
             IN  /\ subtracted \cup A = parent
                 /\ subtracted \cap A = {}]_vars

\* a subtraction took one population, a part of the parent and not all of it,
\* out of the parent
C16_Witness ==
    /\ ret.op = "subtraction"
    /\ ret.status = "ok"
    /\ Len(ret.args[1]) = 1
    /\ ret.args[3] \in DOMAIN populations
    /\ populations[ret.args[1][1]].index # {}
    /\ populations[ret.args[1][1]].index \subseteq populations[ret.args[2]].index
    /\ populations[ret.args[1][1]].index # populations[ret.args[2]].index
    /\ populations[ret.args[3]].index \cup populations[ret.args[1][1]].index
         = populations[ret.args[2]].index

\* the pairwise merges of a list taken left to right, up to its k-th element
RECURSIVE LeftToRight(_, _)
LeftToRight(pops, k) ==
    IF k = 1 THEN Returned(pops[1])
    ELSE LET before == LeftToRight(pops, k - 1)
         IN  IF before.raised THEN before
             ELSE merge_populations(before.value, pops[k], None)

\* the same population whatever its name
Unnamed(population) == [population EXCEPT !.population_name = None]

\* what is said of a merge of a list, for a call that gave a name or gave none
MergedListIsNamed(call, given) ==
    LET pops == call.args[1]
        names == {pops[i].population_name : i \in 1..Len(pops)}
    IN  /\ (~ given /\ Cardinality(names) # 1) => call.status = "raised"
        /\ (call.status = "ok" /\ ~ given) => names = {call.value.population_name}
        /\ (call.status = "ok" /\ given) => call.value.population_name = call.args[2]
        /\ call.status = "ok"
              => /\ ~ LeftToRight(pops, Len(pops)).raised
                 /\ Unnamed(call.value) = Unnamed(LeftToRight(pops, Len(pops)).value)
        /\ (pops # <<>> /\ LeftToRight(pops, Len(pops)).raised) => call.status = "raised"

\* C17: a merge of two populations given no name is named
\* merge_<left>_<right>; a merge of a list is the pairwise merges taken left
\* to right, given no name it fails unless all of the list have one name,
\* which the result then has, and given a name the result has that name.
\* The empty string is taken for a name or for none, whichever suits the call.
C17_MergedPopulationsAreNamed ==
    /\ (ret.op = "merge_populations" /\ ret.status = "ok" /\ ret.args[3] = None)
          => ret.value.population_name
               = "merge_" \o ret.args[1].population_name \o "_" \o ret.args[2].population_name
    /\ (ret.op = "merge_populations" /\ ret.status = "ok" /\ ~ Falsy(ret.args[3]))
          => ret.value.population_name = ret.args[3]
    /\ ret.op = "merge_multiple_populations"
          => IF ret.args[2] = ""
             THEN MergedListIsNamed(ret, TRUE) \/ MergedListIsNamed(ret, FALSE)
             ELSE MergedListIsNamed(ret, ret.args[2] # None)

\* the last call was get_fmo_data for the pair of a control and a population
CalledFor(call, fmo, population) ==
    call.op = "get_fmo_data" /\ call.args = <<population, fmo>>

\* C18: once a control and a population have an entry in the cache, every
\* later get_fmo_data call for the two returns the rows of the control at
\* the index of that entry, trains no classifier and changes no entry.  A
\* call for the two can follow any step, and it answers from the entry as it
\* then stands: the later calls return the index that was cached once if and
\* only if no step changes an entry that is there.
C18_CachedPairsAreAnsweredFromTheCache ==
    [][\A fmo \in Controls, population \in PopNames :
          population \in DOMAIN fmo_search_cache[fmo]
            => /\ population \in DOMAIN fmo_search_cache'[fmo]
               /\ fmo_search_cache'[fmo][population] = fmo_search_cache[fmo][population]
               /\ CalledFor(ret', fmo, population)
                     => /\ ret'.status = "ok"
                        /\ ret'.value = fmo_search_cache[fmo][population]
                        /\ ret'.trained = 0
                        /\ fmo_search_cache' = fmo_search_cache]_vars

\* a create_gate call leaves out a parameter the constructor of the class or
\* the method requires
ParameterAbsent(call) ==
    \/ \E arg \in ConstructorArgs(call.class_) \ {"data", "child_populations"} :
          arg \notin DOMAIN call.kwargs
    \/ \E arg \in MethodArgs(call.class_, call.method) \ {"self", "child_populations"} :
          arg \notin DOMAIN call.kwargs

\* a create_gate step that answers False and changes no gate where it is to
\* refuse, and otherwise answers True and adds the one gate of the call
CreateGateAnswers(call, refuse) ==
    IF refuse
    THEN /\ ret'.value = BoolValue(FALSE)
         /\ gates' = gates
         /\ populations' = populations
    ELSE /\ ret'.value = BoolValue(TRUE)
         /\ call.gate_name \notin DOMAIN gates
         /\ DOMAIN gates' = DOMAIN gates \cup {call.gate_name}
         /\ \A g \in DOMAIN gates : gates'[g] = gates[g]
         /\ gates'[call.gate_name].class_ = call.class_
         /\ gates'[call.gate_name].parent = call.parent
         /\ populations' = populations

\* C19 as stated: create_gate returns False and leaves the gates unchanged
\* when the name is registered, the class is not a gating class or a
\* required parameter of the constructor or of the method is absent;
\* otherwise it adds one gate under the name, keeps the other gates and
\* leaves the population tree alone.
C19_CreateGateRefusesThreeCases ==
    [][ret'.op = "create_gate"
         => CreateGateAnswers(ret'.args,
                              \/ ret'.args.gate_name \in DOMAIN gates
                              \/ ret'.args.class_ \notin GatingClasses
                              \/ ParameterAbsent(ret'.args))]_vars

\* C19 as the code has it: create_gate refuses as well when the method is
\* not a method of the class, and then too returns False and changes nothing.
C19_CreateGateRefusesUnknownMethods ==
    [][ret'.op = "create_gate"
         => CreateGateAnswers(ret'.args,
                              \/ ret'.args.gate_name \in DOMAIN gates
                              \/ ret'.args.class_ \notin GatingClasses
                              \/ ParameterAbsent(ret'.args)
                              \/ ret'.args.method \notin Methods(ret'.args.class_))]_vars

\* create_gate was called with a free name, a gating class and every
\* parameter, for a method the class does not have, and refused
C19_Witness ==
    /\ ret.op = "create_gate"
    /\ ret.args.gate_name \notin DOMAIN gates
    /\ ret.args.class_ \in GatingClasses
    /\ ~ ParameterAbsent(ret.args)
    /\ ret.args.method \notin Methods(ret.args.class_)
    /\ ret.value = BoolValue(FALSE)

\* the k-th population above n in the tree, n itself for k = 0
RECURSIVE Above(_, _, _)
Above(pops, n, k) ==
    IF k = 0 THEN n
    ELSE IF n \notin DOMAIN pops THEN None
    ELSE Above(pops, pops[n].parent, k - 1)

\* the path from the root to n passes through the population
PassesThrough(pops, n, population) ==
    LET above == {Above(pops, n, k) : k \in 0..Cardinality(DOMAIN pops)}
    IN  "root" \in above /\ population \in above

\* C20: find_dependencies(population) returns the populations whose path
\* from the root passes through the population, itself among them, and no
\* other; for a name that is no population it returns no list and changes
\* nothing.
C20_DependenciesAreThePathsThrough ==
    [][ret'.op = "find_dependencies"
         => /\ populations' = populations
            /\ gates' = gates
            /\ IF ret'.args \in DOMAIN populations
               THEN /\ ret'.value = ListValue({n \in DOMAIN populations :
                                                 PassesThrough(populations, n, ret'.args)})
                    /\ ret'.args \in ret'.value.populations
               ELSE ret'.value = NoValue]_vars

\* find_dependencies was asked of a population with populations below it and
\* others beside it
C20_Witness ==
    /\ ret.op = "find_dependencies"
    /\ ret.status = "ok"
    /\ ret.args # "root"
    /\ Cardinality(ret.value.populations) >= 2
    /\ ret.value.populations # DOMAIN populations \ {"root"}

\* C21: save(overwrite=False) fails when a saved population's index is not
\* the index in memory of the population of that name, and then the saved
\* populations, their indexes and the saved gates are as before the call.
C21_SaveRefusesAChangedIndex ==
    [][(ret'.op = "save" /\ ret'.args = FALSE
        /\ \E name \in DOMAIN populations \cap DOMAIN filegroup.populations :
              filegroup.populations[name].index # populations[name].index)
          => /\ ret'.status = "raised"
             /\ filegroup' = filegroup]_vars

\* save(overwrite=False) was called after an edit changed the index of a
\* saved population, and failed
C21_Witness ==
    /\ ret.op = "save"
    /\ ret.args = FALSE
    /\ ret.status = "raised"
    /\ \E name \in DOMAIN populations \cap DOMAIN filegroup.populations :
          /\ filegroup.populations[name].index # populations[name].index
          /\ filegroup.populations[name].index # {}

\* what is left of saved entries when the named ones, or with 'all' every
\* one, are removed
Without(saved, argument) ==
    IF argument = Str("all") THEN EmptyMap
    ELSE Restrict(saved, DOMAIN saved \ Range(argument.list))

\* C22: FileGroup.delete_populations('all') removes every population of the
\* file group and FileGroup.delete_gates('all') every gate; given a list of
\* names each removes the named entries and keeps the others.
C22_DeleteRemovesAllOrTheNamed ==
    [][/\ ret'.op = "delete_populations"
          => /\ filegroup'.populations = Without(filegroup.populations, ret'.args)
             /\ filegroup'.gates = filegroup.gates
       /\ ret'.op = "delete_gates"
          => /\ filegroup'.gates = Without(filegroup.gates, ret'.args)
             /\ filegroup'.populations = filegroup.populations]_vars

\* the rows of the parent of a population
ParentRows(pops, population_name) == pops[pops[population_name].parent].index \cap Events

\* the events of a set within the bounds of a rectangle, the bounds included
InRect(rows, geom) ==
    {e \in rows : /\ geom.x_min <= Column(e, geom.x) /\ Column(e, geom.x) <= geom.x_max
                  /\ geom.y_min <= Column(e, geom.y) /\ Column(e, geom.y) <= geom.y_max}

\* C23: a rect geom of sign '+' gives the events of the parent whose x lies
\* in [x_min, x_max] and whose y lies in [y_min, y_max], the bounds included;
\* of sign '-' it gives the events of the parent that are not in the '+'
\* index, so that the two indexes partition the events of the parent.
C23_RectIndexIsTheRectangleOrItsComplement ==
    (ret.op = "__update_index" /\ ret.status = "ok")
      => LET geom == ret.args.geom
             rows == ParentRows(populations, ret.args.population_name)
             positive == UpdateIndex(populations, ret.args.population_name,
                                     [geom EXCEPT !.definition = "+"]).index
             negative == UpdateIndex(populations, ret.args.population_name,
                                     [geom EXCEPT !.definition = "-"]).index
         IN  /\ geom.definition = "+" => ret.value.index = InRect(rows, geom)
             /\ geom.definition = "-" => ret.value.index = rows \ InRect(rows, geom)
             /\ positive \cup negative = rows
             /\ positive \cap negative = {}

\* a '-' rectangle was evaluated with an event of the parent on its bound,
\* events inside it and events outside it
C23_Witness ==
    /\ ret.op = "__update_index"
    /\ ret.status = "ok"
    /\ ret.args.geom.definition = "-"
    /\ ret.value.index # {}
    /\ ret.value.index # ParentRows(populations, ret.args.population_name)
    /\ \E e \in ParentRows(populations, ret.args.population_name) :
          /\ Column(e, "FSC-A") = ret.args.geom.x_max
          /\ e \notin ret.value.index

\* how far down the route to the target the cache of the control reaches: the
\* place on the route of the nearest population above the target that has
\* an entry, 0 where that is the root
NearestCached(pops, cache, target_population, fmo) ==
    LET path == Route(pops, target_population)
        cached == {i \in 1..Len(path) : path[i] \in DOMAIN cache[fmo]}
    IN  IF cached = {} THEN 0 ELSE CHOOSE i \in cached : \A j \in cached : j <= i

\* C24: a get_fmo_data call that misses the cache starts from the nearest
\* population above the target that has an entry in the cache of the
\* control: its rows are within the index of that entry, it trains a
\* classifier only for the populations below it on the path to the target,
\* and writes no entry for the populations at or above it.
C24_MissStartsAtTheNearestCachedAncestor ==
    [][\A fmo \in Controls, target_population \in PopNames :
          (/\ CalledFor(ret', fmo, target_population)
           /\ ret'.status = "ok"
           /\ target_population \notin DOMAIN fmo_search_cache[fmo])
            => LET path == Route(populations, target_population)
                   i == NearestCached(populations, fmo_search_cache, target_population, fmo)
                   start == IF i = 0 THEN "root" ELSE path[i]
               IN  /\ ret'.trained = Len(path) - i
                   /\ ret'.value \subseteq fmo_search_cache[fmo][start]
                   /\ \A j \in 1..i :
                         path[j] \in DOMAIN fmo_search_cache[fmo]
                           => fmo_search_cache'[fmo][path[j]] = fmo_search_cache[fmo][path[j]]]_vars

\* the route to the target comes to a population a supervised classifier
\* defined, sml_profiles being None
FailsOnSml(pops, target_population) ==
    \E i \in 1..Len(Route(pops, target_population)) :
        LET pop == Route(pops, target_population)[i]
        IN  pop \in DOMAIN pops /\ pops[pop].geom.shape = "sml"

\* C25: when get_fmo_data fails because a population on the path is defined
\* by a supervised classifier ('sml') and no profile was given for it, every
\* entry the cache had before the call is unchanged, and no entry is stored
\* for the failing population or for a population below it on the path.
C25_FailureOnSmlLeavesTheCache ==
    [][\A fmo \in Controls, target_population \in PopNames :
          (/\ CalledFor(ret', fmo, target_population)
           /\ ret'.status = "raised"
           /\ target_population \in DOMAIN populations
           /\ FailsOnSml(populations, target_population))
            => LET path == Route(populations, target_population)
                   failing == CHOOSE i \in 1..Len(path) :
                                  /\ populations[path[i]].geom.shape = "sml"
                                  /\ \A j \in 1..(i - 1) : populations[path[j]].geom.shape # "sml"
               IN  /\ \A f \in Controls :
                         \A population \in DOMAIN fmo_search_cache[f] :
                            /\ population \in DOMAIN fmo_search_cache'[f]
                            /\ fmo_search_cache'[f][population] = fmo_search_cache[f][population]
                   /\ \A j \in failing..Len(path) :
                         path[j] \notin DOMAIN fmo_search_cache[fmo]
                           => path[j] \notin DOMAIN fmo_search_cache'[fmo]]_vars

\* the operations that change the tree and do not look at the controls
ChangesTheTree(call) ==
    call.op \in {"edit_gate", "remove_population", "remove_gate", "merge", "subtraction"}

\* C26: the entries of the cache are never evicted: a control and a
\* population that were cached stay cached, every control keeps its 'root'
\* entry at the whole index of the control, and edit_gate,
\* remove_population, remove_gate, merge and subtraction leave the cache as
\* it is, also when they change or remove a population that is cached.
C26_CacheEntriesAreNeverEvicted ==
    [][/\ \A fmo \in Controls :
             /\ DOMAIN fmo_search_cache[fmo] \subseteq DOMAIN fmo_search_cache'[fmo]
             /\ fmo_search_cache[fmo]["root"] = FmoEvents
             /\ fmo_search_cache'[fmo]["root"] = FmoEvents
       /\ ChangesTheTree(ret') => fmo_search_cache' = fmo_search_cache]_vars

\* an operation took a cached population out of the tree, or changed its
\* index, and the population is cached still
C26_Witness ==
    /\ ChangesTheTree(ret)
    /\ ret.status = "ok"
    /\ \E population \in DOMAIN fmo_search_cache["CD4"] \ {"root"} :
          /\ population \in ret.removed
          /\ population \notin DOMAIN populations
          /\ fmo_search_cache["CD4"][population] # {}

\* the last call applied a gate of a gating class and ran to its end
AppliedAStrategy(call, gts) ==
    /\ call.op = "apply"
    /\ call.status = "ok"
    /\ call.args \in DOMAIN gts
    /\ gts[call.args].class_ \notin {"merge", "subtraction"}

\* C27: an apply of a gate G of a gating class that ran to its end added
\* exactly the children G declares, each under G.parent, each with its
\* proportions taken against the rows of G.parent and the rows of root and
\* with the warnings of the gating class; every population that was in the
\* tree, and every gate, is as it was.
C27_ApplyAddsTheDeclaredChildren ==
    [][AppliedAStrategy(ret', gates) =>
         LET G == gates[ret'.args]
             parent_rows == PopulationRows(populations, G.parent)
         IN  /\ DOMAIN populations' = DOMAIN populations \cup Range(G.children)
             /\ \A name \in Range(G.children) :
                   /\ name \notin DOMAIN populations
                   /\ populations'[name].parent = G.parent
                   /\ populations'[name].index \subseteq parent_rows
                   /\ PropIs(populations'[name].prop_of_parent,
                             Cardinality(populations'[name].index),
                             Cardinality(parent_rows))
                   /\ PropIs(populations'[name].prop_of_total,
                             Cardinality(populations'[name].index),
                             Cardinality(PopulationRows(populations, "root")))
                   /\ populations'[name].warnings \in StrategyWarnings
             /\ \A name \in DOMAIN populations : populations'[name] = populations[name]
             /\ gates' = gates]_vars

\* a gate under a population that holds a part of the rows was applied and
\* its child holds rows
C27_Witness ==
    /\ AppliedAStrategy(ret, gates)
    /\ gates[ret.args].parent # "root"
    /\ \E name \in Range(gates[ret.args].children) :
          /\ name \in DOMAIN populations
          /\ populations[name].parent = gates[ret.args].parent
          /\ populations[name].index # {}
          /\ populations[populations[name].parent].index # Events

\* what makes apply_many turn the call down, read off the claim
TurnedDown(pops, gts, call) ==
    \/ call.args.apply_all /\ DOMAIN pops \ {"root"} # {}
    \/ ~ call.args.apply_all /\ \E name \in Range(call.args.gates) : name \notin DOMAIN gts

\* C28: apply_many applies nothing and changes neither the tree nor the
\* registry when apply_all is True and the tree holds a population besides
\* root, or when apply_all is False and a listed gate name is not registered.
C28_ApplyManyTurnedDownChangesNothing ==
    [][(ret'.op = "apply_many" /\ TurnedDown(populations, gates, ret')) =>
         /\ ret'.status = "refused"
         /\ populations' = populations
         /\ gates' = gates]_vars

\* a list that names a registered gate that could be applied, and a name
\* that is not registered, was turned down
C28_Witness ==
    /\ ret.op = "apply_many"
    /\ ret.status = "refused"
    /\ ~ ret.args.apply_all
    /\ ret.args.gates = <<"G1", "G4">>
    /\ ApplyChecks(populations, gates, "G1")
    /\ "G4" \notin DOMAIN gates

\* every registered gate hangs under root or under a child another
\* registered gate declares
Chained(gts) ==
    \A g \in DOMAIN gts :
        \/ gts[g].parent = "root"
        \/ \E h \in DOMAIN gts \ {g} : gts[g].parent \in Range(gts[h].children)

\* C29: apply_many(apply_all=True) on a tree that holds root alone, with a
\* registry in which every gate's parent is root or a declared child of
\* another registered gate, leaves the children of every registered gate in
\* the tree, whatever the order of the registry.
C29_ApplyAllAppliesEveryGate ==
    [][(/\ ret'.op = "apply_many"
        /\ ret'.args.apply_all
        /\ DOMAIN populations = {"root"}
        /\ Chained(gates)) =>
         \A g \in DOMAIN gates : Range(gates[g].children) \subseteq DOMAIN populations']_vars

\* C30, as stated: the names of the gates are keys and no operation puts
\* another record under a name that is registered: create_gate turns down a
\* name that is registered, and merge and subtraction leave every gate that
\* is registered under the name they derive as it is.
C30_RegisteredGatesAreNotReplaced ==
    [][/\ \A g \in DOMAIN gates \cap DOMAIN gates' : gates'[g] = gates[g]
       /\ (ret'.op = "create_gate" /\ ret'.args.gate_name \in DOMAIN gates) =>
              ret'.status = "refused" /\ gates' = gates]_vars

\* the parts of a well formed tree that do not ask for root to be there
Rooted(pops) ==
    \A n \in DOMAIN pops :
        /\ pops[n].parent = None <=> n = "root"
        /\ pops[n].parent # None => pops[n].parent \in DOMAIN pops
        /\ "root" \in Path(pops, n)

\* C31, as stated: in every reachable state the tree is well formed: root
\* is in it and is the only population without a parent, the parent of
\* every other population is in the tree, and the parent links of every
\* population lead to root.
C31_TreeIsWellFormed ==
    /\ "root" \in DOMAIN populations
    /\ Rooted(populations)

\* the side of a threshold a rounded value is on; "0" is on it
Side(value, threshold) ==
    IF Round2(value) > Round2(threshold) THEN "+"
    ELSE IF Round2(value) < Round2(threshold) THEN "-"
    ELSE "0"

\* the quadrant of an event: a string of the two sides
QuadrantOf(e, geom) ==
    Side(Column(e, geom.x), geom.threshold_x) \o Side(Column(e, geom.y), geom.threshold_y)

\* C32: a 2d threshold compares strictly on both axes: the index of a
\* quadrant is the events of the parent on that side of both rounded
\* thresholds, so the four quadrants are pairwise disjoint and an event
\* whose rounded value is a rounded threshold, on either axis, is in none.
C32_QuadrantsAreStrict ==
    (ret.op = "__update_index" /\ ret.status = "ok")
      => LET geom == ret.args.geom
             rows == ParentRows(populations, ret.args.population_name)
             quadrant(definition) ==
                 UpdateIndex(populations, ret.args.population_name,
                             [geom EXCEPT !.definition = definition]).index
             Definitions == {"++", "--", "+-", "-+"}
         IN  /\ geom.definition \in Definitions
             /\ ret.value.index = {e \in rows : QuadrantOf(e, geom) = geom.definition}
             /\ \A d1, d2 \in Definitions : d1 # d2 => quadrant(d1) \cap quadrant(d2) = {}
             /\ \A e \in rows :
                   (\/ Round2(Column(e, geom.x)) = Round2(geom.threshold_x)
                    \/ Round2(Column(e, geom.y)) = Round2(geom.threshold_y))
                     => \A d \in Definitions : e \notin quadrant(d)

\* a quadrant was evaluated that holds an event, with another event of the
\* parent on a threshold that only rounding puts there
C32_Witness ==
    /\ ret.op = "__update_index"
    /\ ret.status = "ok"
    /\ ret.args.geom.shape = "2d_threshold"
    /\ ret.value.index # {}
    /\ \E e \in ParentRows(populations, ret.args.population_name) :
          /\ Column(e, "FSC-A") # ret.args.geom.threshold_x
          /\ Round2(Column(e, "FSC-A")) = Round2(ret.args.geom.threshold_x)
          /\ e \notin ret.value.index

\* C33, as stated: no two clusters of a Population have the same
\* cluster_id, whatever add_cluster, delete_cluster and delete_all_clusters
\* were called, and an add_cluster of an id that a cluster of the
\* population has fails and leaves the list of clusters as it was.
C33_ClusterIdsAreUnique ==
    [][/\ \A i, j \in DOMAIN clusters' :
             clusters'[i].cluster_id = clusters'[j].cluster_id => i = j
       /\ (/\ ret'.op = "add_cluster"
           /\ \E i \in DOMAIN clusters : clusters[i].cluster_id = ret'.args.cluster_id)
            => ret'.status = "raised" /\ clusters' = clusters]_vars

\* C34, as stated: merge_populations leaves the populations it is given as
\* they were: after the call left and right have the index, the clusters,
\* the warnings, the definition and the geometry they had before it.
C34_MergeLeavesItsInputs ==
    ret.op = "merge_populations" =>
        /\ ret.inputs[1] = ret.args[1]
        /\ ret.inputs[2] = ret.args[2]

\* C35, as stated: the n of every Population is the number of events of its
\* index: of the populations the merges are given, and of the population a
\* merge of threshold or polygon populations returns, also where the
\* indexes of the populations merged overlap.
C35_CountIsTheSizeOfTheIndex ==
    /\ \A document \in Documents : document.n = Len(document.index)
    /\ (ret.op \in {"merge_populations", "merge_multiple_populations"} /\ ret.status = "ok")
          => ret.value.n = Len(ret.value.index)

\* C36, as stated: remove_gate(name, propagate=True) on a gate that is
\* registered runs to its end in every reachable state, also after
\* populations were removed and their names used again under other gates:
\* it does not raise, and the gate and every gate under a population it
\* removed are out of the registry afterwards.
C36_RemoveGateRunsToItsEnd ==
    [][(/\ ret'.op = "remove_gate"
        /\ ret'.args.propagate
        /\ ret'.args.gate_name \in DOMAIN gates) =>
          /\ ret'.status = "ok"
          /\ ret'.args.gate_name \notin DOMAIN gates'
          /\ \A g \in DOMAIN gates' : gates'[g].parent \in DOMAIN populations'
                                        \/ gates[g].parent \notin DOMAIN populations]_vars

\* C37, as stated: on a tree that is not edited, whatever get_fmo_data
\* calls were made, the entry of every cached population but root lies
\* within the entry of its parent for the same control, and within the
\* whole index of the control.
C37_CacheIsNestedAlongTheTree ==
    \A fmo \in Controls :
        \A population \in (DOMAIN fmo_search_cache[fmo] \cap DOMAIN populations) \ {"root"} :
            /\ fmo_search_cache[fmo][population] \subseteq FmoEvents
            /\ populations[population].parent \in DOMAIN fmo_search_cache[fmo]
            /\ fmo_search_cache[fmo][population]
                   \subseteq fmo_search_cache[fmo][populations[population].parent]

\* C38, as stated: when the parameters a gate stores name a control under
\* 'fmo_x' or under 'fmo_y', an apply that reaches the gating class gives
\* it, under that key, the rows get_fmo_data returned for the parent of the
\* gate and that control, and never the name of the control.
C38_ControlsAreReplacedByTheirRows ==
    (ret.op = "apply" /\ ret.status = "ok") =>
        LET stored == gates[ret.args.gate_name].kwargs
        IN  /\ "fmo_x" \in DOMAIN stored =>
                  ret.fmo_x.kind = "rows" /\ ret.fmo_x.rows \subseteq FmoEvents
            /\ "fmo_y" \in DOMAIN stored =>
                  ret.fmo_y.kind = "rows" /\ ret.fmo_y.rows \subseteq FmoEvents

\* the datasets that hold the index of every cluster of a list
Stored(list) ==
    [name \in {list[i].cluster_id : i \in DOMAIN list} |->
        (CHOOSE c \in Range(list) : c.cluster_id = name).index]

\* C39, as stated: after save() the file of the experiment holds one
\* dataset for each cluster of the experiment, the index of that cluster:
\* an experiment with several clusters loses none of them.
C39_SaveStoresEveryCluster ==
    [][ret'.op = "ClusteringExperiment.save" => h5' = Stored(clusters)]_vars

\* the cluster remove_cluster is asked for, where there is one: the cluster
\* of the label given, if one is given, else the cluster of the id
Asked(list, call) ==
    IF call.args.label # None
    THEN {c \in Range(list) : c.label = call.args.label}
    ELSE {c \in Range(list) : c.cluster_id = call.args.cluster_id}

\* C40, as stated: remove_cluster, given the id of a cluster or a label that
\* one cluster carries, removes the record and the stored index of that
\* cluster and leaves the record and the stored index of every other
\* cluster as they were; given an id or a label of no cluster it fails and
\* changes nothing.
C40_RemoveClusterRemovesOneCluster ==
    [][ret'.op = "ClusteringExperiment.remove_cluster" =>
         LET asked == Asked(clusters, ret')
         IN  IF Cardinality(asked) = 1
             THEN /\ ret'.status = "ok"
                  /\ clusters' = SelectSeq(clusters, LAMBDA c : c \notin asked)
                  /\ h5' = Restrict(h5, DOMAIN h5 \ {c.cluster_id : c \in asked})
             ELSE /\ ret'.status = "raised"
                  /\ clusters' = clusters
                  /\ h5' = h5]_vars

====
